---- MODULE Spec2Model ----
(***************************************************************************)
(* Model of the Entity derive macro of money-rs                            *)
(* (inner_macros/src/lib.rs).  One run of entity_macro_internal is a       *)
(* state machine: the parsed DeriveInput is the input, the loop over the   *)
(* fields, their attributes and the flag tokens inside each `entity`       *)
(* attribute are the steps, and the six accumulating vectors and the       *)
(* returned Result are the state.                                          *)
(*                                                                         *)
(* The second part models the HTTP server built on the generated structs   *)
(* (src/handlers.rs, src/model.rs, src/authentication.rs): the tables of   *)
(* the database are the state and every handler under /api is one action.  *)
(***************************************************************************)
EXTENDS Integers, Sequences, FiniteSets, TLC

(***************************************************************************)
(* Bounds of the model.                                                    *)
(***************************************************************************)
\* Largest number of fields of a generated multi-field entity.
MaxFields == 2

(***************************************************************************)
(* Types (syn::Type).  A type is a path type with its segments and the      *)
(* generic arguments of its last segment, or another kind of type (a        *)
(* tuple here), which is_option_type never takes for an Option.             *)
(***************************************************************************)
PathType(segs, args) == [kind |-> "Path", segs |-> segs, args |-> args]

TupleType(args) == [kind |-> "Tuple", segs |-> <<>>, args |-> args]

TyI32 == PathType(<<"i32">>, <<>>)

TyString == PathType(<<"String">>, <<>>)

TyOptionI32 == PathType(<<"Option">>, <<TyI32>>)

TyOptionString == PathType(<<"Option">>, <<TyString>>)

TyOptionOptionI32 == PathType(<<"Option">>, <<TyOptionI32>>)

\* std::option::Option<i32>: the same type as Option<i32>, written with its path.
TyStdOptionI32 == PathType(<<"std", "option", "Option">>, <<TyI32>>)

TyTuple == TupleType(<<TyI32, TyI32>>)

\* is_option_type: a path type whose FIRST segment is the identifier Option.
is_option_type(ty) ==
    IF ty.kind = "Path"
    THEN IF Len(ty.segs) > 0 THEN Head(ty.segs) = "Option" ELSE FALSE
    ELSE FALSE

\* A make_option that wraps whatever it is given.
make_option_AlwaysWraps(ty) == PathType(<<"Option">>, <<ty>>)

\* make_option: the type itself when is_option_type, Option<ty> otherwise.
make_option(ty) ==
    IF is_option_type(ty) THEN ty ELSE PathType(<<"Option">>, <<ty>>)

(***************************************************************************)
(* Identifiers.  A name is the sequence of its pieces, each piece either    *)
(* "_id" or a piece that does not end a "_id" suffix, so that the name      *)
(* ends in "_id" exactly when its last piece is "_id".  The empty sequence  *)
(* is the empty string, which is no identifier.                             *)
(***************************************************************************)
NoIdent == <<"<none>">>

NameC == <<"c">>

NameCId == <<"c", "_id">>

NameId == <<"_id">>

NameCIdId == <<"c", "_id", "_id">>

\* str::strip_suffix("_id"): Some(rest) when the name ends in "_id", else None.
ends_with_id(name) == Len(name) > 0 /\ name[Len(name)] = "_id"

strip_suffix_id(name) == SubSeq(name, 1, Len(name) - 1)

\* Ident::new panics on a string that is no identifier; the empty string is none.
ident_new_panics(name) == name = <<>>

(***************************************************************************)
(* The input: a parsed DeriveInput.  attrs are the attributes of the        *)
(* struct, each with its path and, when its argument is an assignment,      *)
(* the two sides of it; a field has an optional ident, a type and its       *)
(* attributes, each with its path and the flag tokens in its parentheses.   *)
(***************************************************************************)
Flags ==
    {"NotUpdatable", "NotViewable", "HasDefault", "NotSettable", "Id",
     "RepresentableAsString"}

FlagOrder ==
    <<"NotUpdatable", "NotViewable", "HasDefault", "NotSettable", "Id",
      "RepresentableAsString">>

Reverse(s) == [i \in 1..Len(s) |-> s[Len(s) + 1 - i]]

IsIn(S) == [t \in Flags |-> t \in S]

\* The tokens of a flag set, in one fixed order.
SeqOf(S) == LET member == IsIn(S) IN SelectSeq(FlagOrder, LAMBDA t : member[t])

EntityAttr(metas) == [path |-> "entity", metas |-> metas]

DocAttr == [path |-> "doc", metas |-> <<>>]

\* Attribute lists of one field: every flag set written in one attribute, in
\* two orders, split over two attributes, followed by one more token (new or
\* repeated) in an attribute of its own, behind a doc comment with a token
\* repeated; no attribute at all; and lists with an unknown token.
AttrLists ==
    {<<EntityAttr(SeqOf(S))>> : S \in SUBSET Flags}
        \cup {<<EntityAttr(SeqOf(S)), EntityAttr(<<g>>)>> :
                S \in SUBSET Flags, g \in Flags}
        \cup {<<EntityAttr(Reverse(SeqOf(S)))>> : S \in SUBSET Flags}
        \cup {<<EntityAttr(<<Head(SeqOf(S))>>), EntityAttr(Tail(SeqOf(S)))>> :
                S \in (SUBSET Flags) \ {{}}}
        \cup {<<DocAttr, EntityAttr(<<t, t>>)>> : t \in Flags}
        \cup {<<>>, <<DocAttr>>}
        \cup {<<EntityAttr(<<"Bogus">>)>>, <<EntityAttr(<<"Id", "Bogus">>)>>,
              <<EntityAttr(<<"Bogus", "NotViewable">>)>>}

FieldNames == {NameC, NameCId, NameId, NameCIdId}

FieldTypes ==
    {TyI32, TyOptionI32, TyOptionOptionI32, TyStdOptionI32, TyTuple}

Field(ident, ty, attrs) == [ident |-> ident, ty |-> ty, attrs |-> attrs]

\* Fields of the single-field entities: every name, type and attribute list.
RichFields ==
    {Field(n, ty, a) : n \in FieldNames, ty \in FieldTypes, a \in AttrLists}

\* Fields of the multi-field entities: fewer attribute lists and types.
PoorAttrLists ==
    {<<>>,
     <<EntityAttr(<<"RepresentableAsString">>)>>,
     <<EntityAttr(<<"NotViewable">>)>>,
     <<EntityAttr(<<"HasDefault">>)>>,
     <<EntityAttr(<<"NotUpdatable", "NotViewable", "NotSettable", "Id">>)>>,
     <<EntityAttr(<<"Bogus">>)>>}

PoorNames == {NameC, NameCId, NameId}

PoorFields ==
    {Field(n, ty, a) : n \in PoorNames, ty \in {TyI32, TyOptionI32},
                       a \in PoorAttrLists}

\* A field of a tuple struct: it has no ident.
UnnamedField == Field(NoIdent, TyI32, <<>>)

\* Fields of the tuple structs, with and without attributes.
UnnamedFields ==
    {UnnamedField, Field(NoIdent, TyOptionI32, <<EntityAttr(<<"Bogus">>)>>),
     Field(NoIdent, TyI32, <<EntityAttr(<<"NotViewable">>)>>)}

Range(s) == {s[i] : i \in 1..Len(s)}

UniqueNames(fs) ==
    \A i, j \in 1..Len(fs) : fs[i].ident = fs[j].ident => i = j

SeqsUpTo(S, n) == UNION {[1..k -> S] : k \in 0..n}

FieldLists ==
    {<<f>> : f \in RichFields}
        \cup {fs \in SeqsUpTo(PoorFields, MaxFields) : UniqueNames(fs)}
        \cup (SeqsUpTo(UnnamedFields, MaxFields) \ {<<>>})

DieselAssign(left, right) == [path |-> "diesel", left |-> left, right |-> right]

\* #[diesel(check_for_backend(diesel::pg::Pg))]: a diesel attribute whose
\* argument is no assignment.
DieselOther == [path |-> "diesel", left |-> "", right |-> ""]

DeriveAttr == [path |-> "derive", left |-> "", right |-> ""]

WithTable == <<DeriveAttr, DieselAssign("table_name", "widgets"), DieselOther>>

WithTwoTables ==
    <<DieselAssign("table_name", "widgets"), DieselAssign("table_name", "gadgets")>>

WithoutTable == <<DeriveAttr, DieselOther, DieselAssign("primary_key", "id")>>

DeriveInput(ident, attrs, data, fields) ==
    [ident |-> ident, attrs |-> attrs, data |-> data, fields |-> fields]

\* The Widget entity of the documentation's end-to-end example.
Widget ==
    DeriveInput("Widget", WithTable, "Struct",
        <<Field(<<"id">>, TyI32,
                <<EntityAttr(<<"NotUpdatable", "NotViewable", "NotSettable", "Id">>)>>),
          Field(<<"label">>, TyString, <<>>),
          Field(<<"count">>, TyI32, <<EntityAttr(<<"HasDefault">>)>>)>>)

Inputs ==
    {DeriveInput("Widget", WithTable, "Struct", fs) : fs \in FieldLists}
        \cup {DeriveInput("Widget", a, "Struct", fs) :
                a \in {WithTwoTables, WithoutTable, <<>>},
                fs \in SeqsUpTo({Field(NameC, TyI32, al) : al \in PoorAttrLists}, 1)}
        \cup {DeriveInput("Widget", a, "Enum", <<>>) : a \in {WithTable, <<>>}}
        \cup {Widget}

(***************************************************************************)
(* State of one run of entity_macro_internal.                               *)
(***************************************************************************)
VARIABLES
    ast,                     \* the parsed DeriveInput
    pc,                      \* "start", "field", "attrs" or "done"
    fi,                      \* index of the field the loop is at
    ai,                      \* index of the attribute of that field
    mi,                      \* index of the token inside that attribute
    push_to_new,
    option_in_new,
    push_to_create_request,
    push_to_update,
    push_to_update_request,
    push_to_response,
    representable_as_name,
    entity_fields,
    new_fields,
    create_request_fields,
    update_fields,
    update_request_fields,
    response_fields,
    result,                  \* the returned Result, once pc = "done"
    currencies,              \* the rows of table currencies
    sources,                 \* the rows of table sources
    categories,              \* the rows of table categories
    entries,                 \* the rows of table entries
    serial,                  \* the next id of each table's sequence
    request,                 \* the request served last
    response,                \* the HttpResponse it was answered with
    served                   \* the number of requests served

position == <<fi, ai, mi>>

locals ==
    <<push_to_new, option_in_new, push_to_create_request, push_to_update,
      push_to_update_request, push_to_response, representable_as_name>>

lists ==
    <<entity_fields, new_fields, create_request_fields, update_fields,
      update_request_fields, response_fields>>

tables == <<currencies, sources, categories, entries>>

server == <<tables, serial, request, response, served>>

expansion == <<ast, pc, position, locals, lists, result>>

vars == <<expansion, server>>

NoResult == [kind |-> "None"]

Ok(tokens) == [kind |-> "Ok", expanded |-> tokens]

\* Diagnostic::new(Level::Error, message): no span is attached.  The message
\* is the sequence of its pieces, each a sequence of strings as the names are.
Err(message) == [kind |-> "Err", level |-> "Error", message |-> message]

Panicked(message) == [kind |-> "Panic", message |-> message]

\* A table_name_vec that keeps the right side of any #[diesel(.. = ..)].
table_name_vec_AnyAssign(attrs) ==
    LET keep == SelectSeq(attrs,
                    LAMBDA el : el.path = "diesel" /\ el.left # "")
    IN  [i \in 1..Len(keep) |-> keep[i].right]

\* table_name_vec: the right sides of the #[diesel(table_name = ...)] attributes.
table_name_vec(attrs) ==
    LET keep == SelectSeq(attrs,
                    LAMBDA el : el.path = "diesel" /\ el.left = "table_name")
    IN  [i \in 1..Len(keep) |-> keep[i].right]

\* format!("New{struct_name}") and the four other names.
new_struct_name(n) == <<"New", n>>

create_request_struct_name(n) == <<"Create", n, "Request">>

update_struct_name(n) == <<"Update", n>>

update_request_struct_name(n) == <<"Update", n, "Request">>

response_struct_name(n) == <<n, "Response">>

\* One pushed `pub name: ty`; src is the index of the field it was made from.
Pushed(name, ty, src) == [name |-> name, ty |-> ty, src |-> src]

(***************************************************************************)
(* The database of the server: the rows of the four tables of schema.rs,   *)
(* as the structs of model.rs read them.  Amounts are counted in units of  *)
(* EPSILON.  A NaiveDateTime is <<year, month, day, second of the day>>.    *)
(***************************************************************************)
None == [some |-> FALSE]

Some(v) == [some |-> TRUE, v |-> v]

User(id) == [id |-> id]

\* The rows of table users; no handler under /api changes them.
users == {User(1), User(2)}

Currency(id, user_id, name, rate_to_fixed, archived) ==
    [id |-> id, user_id |-> user_id, name |-> name,
     rate_to_fixed |-> rate_to_fixed, archived |-> archived]

Source(id, user_id, name, currency_id, amount, archived) ==
    [id |-> id, user_id |-> user_id, name |-> name,
     currency_id |-> currency_id, amount |-> amount, archived |-> archived]

Category(id, user_id, name, archived) ==
    [id |-> id, user_id |-> user_id, name |-> name, archived |-> archived]

Entry(id, user_id, description, category_id, amount, date, created_at, currency_id, entry_type, source_id, secondary_source_id, conversion_rate, conversion_rate_to_fixed, archived) ==
    [id |-> id, user_id |-> user_id, description |-> description,
     category_id |-> category_id, amount |-> amount, date |-> date,
     created_at |-> created_at, currency_id |-> currency_id,
     entry_type |-> entry_type, source_id |-> source_id,
     secondary_source_id |-> secondary_source_id,
     conversion_rate |-> conversion_rate,
     conversion_rate_to_fixed |-> conversion_rate_to_fixed,
     archived |-> archived]

\* The limit the documentation of EntryQuery gives as the default.
DefaultLimit == 500

\* The requests served in one run, from a database of at most DefaultLimit
\* entries and from a larger one.
MaxRequests == 2

MaxBulkRequests == 1

\* A database as create_user leaves it for two users: one currency each.
FreshDatabase ==
    [currencies |-> {Currency(1, 1, "USD", 1, FALSE),
                     Currency(2, 2, "USD", 1, FALSE)},
     sources |-> {},
     categories |-> {},
     entries |-> {},
     serial |-> [currencies |-> 3, sources |-> 1, categories |-> 1,
                 entries |-> 1]]

\* A database with sources, categories and entries of both users.
LedgerDatabase ==
    [currencies |-> FreshDatabase.currencies,
     sources |-> {Source(1, 1, "Wallet", 1, 0, FALSE),
                  Source(2, 1, "Bank", 1, 3, FALSE),
                  Source(3, 2, "Wallet", 2, 3, FALSE)},
     categories |-> {Category(1, 1, "Rent", FALSE),
                     Category(2, 2, "Rent", FALSE),
                     Category(3, 1, "Food", FALSE)},
     entries |->
         {Entry(1, 1, <<"R", "e", "n", "t">>, 1, 2, <<2023, 1, 1, 0>>,
                <<2023, 1, 2, 5>>, 1, "Spend", 1, None, None, 1, FALSE),
          Entry(2, 1, <<"p", "a", "y">>, 1, 3, <<2023, 2, 1, 0>>,
                <<2023, 2, 1, 5>>, 1, "Convert", 2, Some(1), Some(1), 1, TRUE),
          Entry(3, 2, <<"R", "e", "n", "t">>, 2, 2, <<2023, 1, 1, 0>>,
                <<2023, 1, 2, 5>>, 2, "Spend", 3, None, None, 1, FALSE)},
     serial |-> [currencies |-> 3, sources |-> 4, categories |-> 4,
                 entries |-> 4]]

\* A database in which the first user has more than DefaultLimit entries.
BulkDatabase ==
    [currencies |-> FreshDatabase.currencies,
     sources |-> {Source(1, 1, "Wallet", 1, 0, FALSE)},
     categories |-> {Category(1, 1, "Rent", FALSE)},
     entries |->
         {Entry(i, 1, <<"R", "e", "n", "t">>, 1, 2, <<2023, 1, 1, 0>>,
                <<2023, 1, 2, 5>>, 1, "Spend", 1, None, None, 1, FALSE) :
            i \in 1..(DefaultLimit + 1)},
     serial |-> [currencies |-> 3, sources |-> 2, categories |-> 2,
                 entries |-> DefaultLimit + 2]]

\* The server starts on the database d and has served no request.
Started(d) ==
    /\ currencies = d.currencies
    /\ sources = d.sources
    /\ categories = d.categories
    /\ entries = d.entries
    /\ serial = d.serial
    /\ request = [handler |-> "none"]
    /\ response = [status |-> 0]
    /\ served = 0

\* entity_macro_internal is entered with the locals of lines 168-173.
Entered ==
    /\ pc = "start"
    /\ fi = 0 /\ ai = 0 /\ mi = 0
    /\ push_to_new = TRUE
    /\ option_in_new = FALSE
    /\ push_to_create_request = TRUE
    /\ push_to_update = TRUE
    /\ push_to_update_request = TRUE
    /\ push_to_response = TRUE
    /\ representable_as_name = FALSE
    /\ entity_fields = <<>>
    /\ new_fields = <<>>
    /\ create_request_fields = <<>>
    /\ update_fields = <<>>
    /\ update_request_fields = <<>>
    /\ response_fields = <<>>
    /\ result = NoResult

Init ==
    /\ ast \in Inputs
    /\ Entered
    /\ Started(FreshDatabase)

\* The locals as the start of the loop body declares them.
ResetLocals ==
    /\ push_to_new' = TRUE
    /\ option_in_new' = FALSE
    /\ push_to_create_request' = TRUE
    /\ push_to_update' = TRUE
    /\ push_to_update_request' = TRUE
    /\ push_to_response' = TRUE
    /\ representable_as_name' = FALSE

\* The function returns r; fi stays at the field the loop was at.
Return(r) ==
    /\ pc' = "done"
    /\ result' = r
    /\ fi' = fi /\ ai' = 0 /\ mi' = 0
    /\ ResetLocals

\* No #[diesel(table_name = ...)] attribute: the error of lines 147-155.
MissingTableName ==
    /\ pc = "start"
    /\ table_name_vec(ast.attrs) = <<>>
    /\ Return(Err(<<<<"No #[diesel(table_name = ...)] attribute encountered">>>>))
    /\ UNCHANGED <<server, ast, lists>>

\* The table name is found, the six vectors are created empty.
Begin ==
    /\ pc = "start"
    /\ table_name_vec(ast.attrs) # <<>>
    /\ pc' = "field"
    /\ fi' = 1
    /\ UNCHANGED <<server, ast, ai, mi, locals, lists, result>>

AtField == pc = "field" /\ ast.data = "Struct" /\ fi <= Len(ast.fields)

\* A field without an ident is passed over instead of being an error.
NonNamedField_Skips ==
    /\ AtField
    /\ ast.fields[fi].ident = NoIdent
    /\ fi' = fi + 1
    /\ UNCHANGED <<server, ast, pc, ai, mi, locals, lists, result>>

\* A field without an ident: the error of lines 286-291.
NonNamedField ==
    /\ AtField
    /\ ast.fields[fi].ident = NoIdent
    /\ Return(Err(<<<<"Non-struct field encountered ">>, ast.fields[fi]>>))
    /\ UNCHANGED <<server, ast, lists>>

\* The loop body starts on a named field: the seven locals are declared.
EnterField ==
    /\ AtField
    /\ ast.fields[fi].ident # NoIdent
    /\ pc' = "attrs"
    /\ ai' = 1
    /\ mi' = 1
    /\ ResetLocals
    /\ UNCHANGED <<server, ast, fi, lists, result>>

AtAttr == pc = "attrs" /\ ai <= Len(ast.fields[fi].attrs)

\* An attribute that is not `entity` is passed over.
SkipAttr ==
    /\ AtAttr
    /\ ast.fields[fi].attrs[ai].path # "entity"
    /\ ai' = ai + 1
    /\ mi' = 1
    /\ UNCHANGED <<server, ast, pc, fi, locals, lists, result>>

AtMeta ==
    /\ AtAttr
    /\ ast.fields[fi].attrs[ai].path = "entity"
    /\ mi <= Len(ast.fields[fi].attrs[ai].metas)

Meta == ast.fields[fi].attrs[ai].metas[mi]

\* parse_nested_meta has passed every token of the attribute to the closure.
EndAttr ==
    /\ AtAttr
    /\ ast.fields[fi].attrs[ai].path = "entity"
    /\ mi > Len(ast.fields[fi].attrs[ai].metas)
    /\ ai' = ai + 1
    /\ mi' = 1
    /\ UNCHANGED <<server, ast, pc, fi, locals, lists, result>>

\* A NotUpdatable arm that flips the two locals instead of clearing them.
MetaNotUpdatable_Toggles ==
    /\ AtMeta
    /\ Meta = "NotUpdatable"
    /\ push_to_update' = ~push_to_update
    /\ push_to_update_request' = ~push_to_update_request
    /\ mi' = mi + 1
    /\ UNCHANGED <<server, ast, pc, fi, ai, push_to_new, option_in_new,
                   push_to_create_request, push_to_response,
                   representable_as_name, lists, result>>

MetaNotUpdatable ==
    /\ AtMeta
    /\ Meta = "NotUpdatable"
    /\ push_to_update' = FALSE
    /\ push_to_update_request' = FALSE
    /\ mi' = mi + 1
    /\ UNCHANGED <<server, ast, pc, fi, ai, push_to_new, option_in_new,
                   push_to_create_request, push_to_response,
                   representable_as_name, lists, result>>

\* A NotViewable arm that clears the wrong local.
MetaNotViewable_ClearsNew ==
    /\ AtMeta
    /\ Meta = "NotViewable"
    /\ push_to_new' = FALSE
    /\ mi' = mi + 1
    /\ UNCHANGED <<server, ast, pc, fi, ai, push_to_response, option_in_new,
                   push_to_create_request, push_to_update,
                   push_to_update_request, representable_as_name, lists, result>>

MetaNotViewable ==
    /\ AtMeta
    /\ Meta = "NotViewable"
    /\ push_to_response' = FALSE
    /\ mi' = mi + 1
    /\ UNCHANGED <<server, ast, pc, fi, ai, push_to_new, option_in_new,
                   push_to_create_request, push_to_update,
                   push_to_update_request, representable_as_name, lists, result>>

\* A HasDefault arm that also puts the field back into the create request.
MetaHasDefault_ReEnables ==
    /\ AtMeta
    /\ Meta = "HasDefault"
    /\ option_in_new' = TRUE
    /\ push_to_create_request' = TRUE
    /\ mi' = mi + 1
    /\ UNCHANGED <<server, ast, pc, fi, ai, push_to_new, push_to_update,
                   push_to_update_request, push_to_response,
                   representable_as_name, lists, result>>

MetaHasDefault ==
    /\ AtMeta
    /\ Meta = "HasDefault"
    /\ option_in_new' = TRUE
    /\ mi' = mi + 1
    /\ UNCHANGED <<server, ast, pc, fi, ai, push_to_new, push_to_create_request,
                   push_to_update, push_to_update_request, push_to_response,
                   representable_as_name, lists, result>>

\* A NotSettable arm that forgets the two update shapes.
MetaNotSettable_OnlyCreateRequest ==
    /\ AtMeta
    /\ Meta = "NotSettable"
    /\ push_to_create_request' = FALSE
    /\ mi' = mi + 1
    /\ UNCHANGED <<server, ast, pc, fi, ai, push_to_new, option_in_new, push_to_update,
                   push_to_update_request, push_to_response,
                   representable_as_name, lists, result>>

MetaNotSettable ==
    /\ AtMeta
    /\ Meta = "NotSettable"
    /\ push_to_create_request' = FALSE
    /\ push_to_update' = FALSE
    /\ push_to_update_request' = FALSE
    /\ mi' = mi + 1
    /\ UNCHANGED <<server, ast, pc, fi, ai, push_to_new, option_in_new,
                   push_to_response, representable_as_name, lists, result>>

\* An Id arm that also does what NotSettable does to the create request.
MetaId_ImpliesNotSettable ==
    /\ AtMeta
    /\ Meta = "Id"
    /\ push_to_new' = FALSE
    /\ push_to_create_request' = FALSE
    /\ mi' = mi + 1
    /\ UNCHANGED <<server, ast, pc, fi, ai, option_in_new, push_to_update,
                   push_to_update_request, push_to_response,
                   representable_as_name, lists, result>>

MetaId ==
    /\ AtMeta
    /\ Meta = "Id"
    /\ push_to_new' = FALSE
    /\ mi' = mi + 1
    /\ UNCHANGED <<server, ast, pc, fi, ai, option_in_new, push_to_create_request,
                   push_to_update, push_to_update_request, push_to_response,
                   representable_as_name, lists, result>>

MetaRepresentableAsString ==
    /\ AtMeta
    /\ Meta = "RepresentableAsString"
    /\ representable_as_name' = TRUE
    /\ mi' = mi + 1
    /\ UNCHANGED <<server, ast, pc, fi, ai, push_to_new, option_in_new,
                   push_to_create_request, push_to_update,
                   push_to_update_request, push_to_response, lists, result>>

\* An unknown token is passed over instead of being an error.
MetaUnknown_Ignored ==
    /\ AtMeta
    /\ Meta \notin Flags
    /\ mi' = mi + 1
    /\ UNCHANGED <<server, ast, pc, fi, ai, locals, lists, result>>

\* Any other token: the syn::Error of lines 211-216, returned as a Diagnostic
\* whose message is the error's text.
MetaUnknown ==
    /\ AtMeta
    /\ Meta \notin Flags
    /\ Return(Err(<<<<"Unknown meta ">>, <<Meta>>,
                    <<". Expected a value in (NotUpdatable, NotViewable, NotSettable, Id, RepresentableAsString, HasDefault)">>>>))
    /\ UNCHANGED <<server, ast, lists>>

(***************************************************************************)
(* The rest of the loop body (lines 227-285), once every attribute of the   *)
(* field has been read.                                                     *)
(***************************************************************************)
\* The string handed to Ident::new for name_ident (lines 231-235).
stripped_name(ident) ==
    IF ends_with_id(ident) THEN strip_suffix_id(ident) ELSE ident

\* name_ident (lines 230-239).
name_ident(ident, representable) ==
    IF representable THEN stripped_name(ident) ELSE ident

\* A name_type that does not look at the declared type.
name_type_AlwaysString(field_type, representable) ==
    IF representable THEN TyString ELSE field_type

\* name_type as first bound (lines 241-249).
name_type(field_type, representable) ==
    IF representable
    THEN IF is_option_type(field_type) THEN TyOptionString ELSE TyString
    ELSE field_type

\* name_type as bound again (lines 255-259).
name_type_in_create(field_type, representable, option) ==
    IF option
    THEN make_option(name_type(field_type, representable))
    ELSE name_type(field_type, representable)

\* field_type_opt (line 228).
field_type_opt(field_type) == make_option(field_type)

\* A new_type that ignores HasDefault.
new_type_NeverOptional(field_type, option) == field_type

\* new_type (lines 261-265).
new_type(field_type, option) ==
    IF option THEN field_type_opt(field_type) ELSE field_type

\* A name_type_opt written Option<#name_type>.
name_type_opt_AlwaysWraps(field_type, representable, option) ==
    make_option_AlwaysWraps(name_type_in_create(field_type, representable, option))

\* name_type_opt (line 267).
name_type_opt(field_type, representable, option) ==
    make_option(name_type_in_create(field_type, representable, option))

\* A push that puts the field at the front of the vector.
PushIf_Prepends(cond, list, entry) == IF cond THEN <<entry>> \o list ELSE list

PushIf(cond, list, entry) == IF cond THEN Append(list, entry) ELSE list

AtEndOfAttrs == pc = "attrs" /\ ai > Len(ast.fields[fi].attrs)

\* Ident::new(name, ..) of line 236 panics: the derive aborts.
FieldPanic ==
    /\ AtEndOfAttrs
    /\ representable_as_name
    /\ ident_new_panics(stripped_name(ast.fields[fi].ident))
    /\ Return(Panicked(<<"Ident is not allowed to be empty">>))
    /\ UNCHANGED <<server, ast, lists>>

\* A loop body end that pushes the visible name and the visible type into
\* New<Name> and Update<Name> as well.
FinishField_DatabaseShapesRewritten ==
    LET field == ast.fields[fi]
        ident == field.ident
        ty == field.ty
        nm == name_ident(ident, representable_as_name)
    IN  /\ AtEndOfAttrs
        /\ ~(representable_as_name /\ ident_new_panics(stripped_name(ident)))
        /\ response_fields' =
               PushIf(push_to_response, response_fields,
                      Pushed(nm, name_type(ty, representable_as_name), fi))
        /\ entity_fields' = Append(entity_fields, Pushed(ident, ty, fi))
        /\ new_fields' =
               PushIf(push_to_new, new_fields,
                      Pushed(nm, name_type_in_create(ty, representable_as_name,
                                                     option_in_new), fi))
        /\ create_request_fields' =
               PushIf(push_to_create_request, create_request_fields,
                      Pushed(nm, name_type_in_create(ty, representable_as_name,
                                                     option_in_new), fi))
        /\ update_fields' =
               PushIf(push_to_update, update_fields,
                      Pushed(nm, name_type_opt(ty, representable_as_name,
                                               option_in_new), fi))
        /\ update_request_fields' =
               PushIf(push_to_update_request, update_request_fields,
                      Pushed(nm, name_type_opt(ty, representable_as_name,
                                               option_in_new), fi))
        /\ pc' = "field"
        /\ fi' = fi + 1
        /\ ai' = 0
        /\ mi' = 0
        /\ ResetLocals
        /\ UNCHANGED <<server, ast, result>>

\* A FinishField whose response field takes the type of the create request.
FinishField_ResponseAfterWrapping ==
    LET field == ast.fields[fi]
        ident == field.ident
        ty == field.ty
        nm == name_ident(ident, representable_as_name)
    IN  /\ AtEndOfAttrs
        /\ ~(representable_as_name /\ ident_new_panics(stripped_name(ident)))
        /\ response_fields' =
               PushIf(push_to_response, response_fields,
                      Pushed(nm, name_type_in_create(ty, representable_as_name,
                                                     option_in_new), fi))
        /\ entity_fields' = Append(entity_fields, Pushed(ident, ty, fi))
        /\ new_fields' =
               PushIf(push_to_new, new_fields,
                      Pushed(ident, new_type(ty, option_in_new), fi))
        /\ create_request_fields' =
               PushIf(push_to_create_request, create_request_fields,
                      Pushed(nm, name_type_in_create(ty, representable_as_name,
                                                     option_in_new), fi))
        /\ update_fields' =
               PushIf(push_to_update, update_fields,
                      Pushed(ident, field_type_opt(ty), fi))
        /\ update_request_fields' =
               PushIf(push_to_update_request, update_request_fields,
                      Pushed(nm, name_type_opt(ty, representable_as_name,
                                               option_in_new), fi))
        /\ pc' = "field"
        /\ fi' = fi + 1
        /\ ai' = 0
        /\ mi' = 0
        /\ ResetLocals
        /\ UNCHANGED <<server, ast, result>>

\* The names and types are computed and the field is pushed to the vectors
\* its flags select; the loop goes to the next field.
FinishField ==
    LET field == ast.fields[fi]
        ident == field.ident
        ty == field.ty
        nm == name_ident(ident, representable_as_name)
    IN  /\ AtEndOfAttrs
        /\ ~(representable_as_name /\ ident_new_panics(stripped_name(ident)))
        /\ response_fields' =
               PushIf(push_to_response, response_fields,
                      Pushed(nm, name_type(ty, representable_as_name), fi))
        /\ entity_fields' = Append(entity_fields, Pushed(ident, ty, fi))
        /\ new_fields' =
               PushIf(push_to_new, new_fields,
                      Pushed(ident, new_type(ty, option_in_new), fi))
        /\ create_request_fields' =
               PushIf(push_to_create_request, create_request_fields,
                      Pushed(nm, name_type_in_create(ty, representable_as_name,
                                                     option_in_new), fi))
        /\ update_fields' =
               PushIf(push_to_update, update_fields,
                      Pushed(ident, field_type_opt(ty), fi))
        /\ update_request_fields' =
               PushIf(push_to_update_request, update_request_fields,
                      Pushed(nm, name_type_opt(ty, representable_as_name,
                                               option_in_new), fi))
        /\ pc' = "field"
        /\ fi' = fi + 1
        /\ ai' = 0
        /\ mi' = 0
        /\ ResetLocals
        /\ UNCHANGED <<server, ast, result>>

\* A generated struct: its name, the table it is bound to ("" when it has
\* no #[diesel(table_name = ...)]) and its fields.
Struct(name, table, fields) == [name |-> name, table |-> table, fields |-> fields]

\* The quote! of lines 295-324.
expanded ==
    LET n == ast.ident
        table_name == Head(table_name_vec(ast.attrs))
    IN  [new |-> Struct(new_struct_name(n), table_name, new_fields),
         create_request |->
             Struct(create_request_struct_name(n), "", create_request_fields),
         update |-> Struct(update_struct_name(n), table_name, update_fields),
         update_request |->
             Struct(update_request_struct_name(n), "", update_request_fields),
         response |-> Struct(response_struct_name(n), "", response_fields)]

\* Every field is done (or the input is no struct): Ok(expanded).
Emit ==
    /\ pc = "field"
    /\ ~AtField
    /\ Return(Ok(expanded))
    /\ UNCHANGED <<server, ast, lists>>

Next ==
    \/ MissingTableName
    \/ Begin
    \/ NonNamedField
    \/ EnterField
    \/ SkipAttr
    \/ EndAttr
    \/ MetaNotUpdatable
    \/ MetaNotViewable
    \/ MetaHasDefault
    \/ MetaNotSettable
    \/ MetaId
    \/ MetaRepresentableAsString
    \/ MetaUnknown
    \/ FieldPanic
    \/ FinishField
    \/ Emit

Spec == Init /\ [][Next]_vars

(***************************************************************************)
(* Properties.  The flags of a field are read from the input; the shapes    *)
(* are the five vectors, as accumulated so far or as returned.              *)
(***************************************************************************)
\* The set of flag tokens of a field, over all its `entity` attributes.
FlagsOf(f) ==
    UNION {Range(f.attrs[k].metas) :
             k \in {j \in 1..Len(f.attrs) : f.attrs[j].path = "entity"}}

Returned == result.kind = "Ok"

NewShape == IF Returned THEN result.expanded.new.fields ELSE new_fields

CreateRequestShape ==
    IF Returned THEN result.expanded.create_request.fields
    ELSE create_request_fields

UpdateShape == IF Returned THEN result.expanded.update.fields ELSE update_fields

UpdateRequestShape ==
    IF Returned THEN result.expanded.update_request.fields
    ELSE update_request_fields

ResponseShape ==
    IF Returned THEN result.expanded.response.fields ELSE response_fields

\* The fields whose loop body has run to its end.
Completed == {entity_fields[k].src : k \in 1..Len(entity_fields)}

InShape(shape, i) == \E k \in 1..Len(shape) : shape[k].src = i

EntryOf(shape, i) == shape[CHOOSE k \in 1..Len(shape) : shape[k].src = i]

Declared(i) == ast.fields[i]

Has(i, flag) == flag \in FlagsOf(Declared(i))

\* C1: a field is in Update<Name> and in Update<Name>Request exactly when its
\* flags contain neither NotUpdatable nor NotSettable, so the two update
\* shapes select the same source fields.
C1_UpdateMembership ==
    \A i \in Completed :
        LET updatable == ~Has(i, "NotUpdatable") /\ ~Has(i, "NotSettable")
        IN  /\ InShape(UpdateShape, i) <=> updatable
            /\ InShape(UpdateRequestShape, i) <=> updatable
            /\ InShape(UpdateShape, i) <=> InShape(UpdateRequestShape, i)

C1_Witness ==
    /\ Returned
    /\ \E i, j \in Completed :
        /\ FlagsOf(Declared(i)) # {}
        /\ InShape(UpdateShape, i) /\ InShape(UpdateRequestShape, i)
        /\ Has(j, "NotSettable")
        /\ ~InShape(UpdateShape, j) /\ ~InShape(UpdateRequestShape, j)

\* C2: a field is in Create<Name>Request exactly when its flags do not
\* contain NotSettable; a field flagged Id without NotSettable is in it.
C2_CreateRequestMembership ==
    \A i \in Completed :
        /\ InShape(CreateRequestShape, i) <=> ~Has(i, "NotSettable")
        /\ Has(i, "Id") /\ ~Has(i, "NotSettable")
               => InShape(CreateRequestShape, i)

C2_Witness ==
    /\ Returned
    /\ \E i \in Completed :
        /\ Has(i, "Id") /\ ~Has(i, "NotSettable")
        /\ InShape(CreateRequestShape, i)
        /\ ~InShape(NewShape, i)

\* C3: a field is in New<Name> exactly when its flags do not contain Id; no
\* other flag changes that.
C3_NewMembership ==
    \A i \in Completed : InShape(NewShape, i) <=> ~Has(i, "Id")

C3_Witness ==
    /\ Returned
    /\ \E i \in Completed :
        /\ FlagsOf(Declared(i)) = Flags \ {"Id"}
        /\ InShape(NewShape, i)

\* C4: a field is in <Name>Response exactly when its flags do not contain
\* NotViewable; Id, NotSettable and NotUpdatable do not remove it.
C4_ResponseMembership ==
    \A i \in Completed : InShape(ResponseShape, i) <=> ~Has(i, "NotViewable")

C4_Witness ==
    /\ Returned
    /\ \E i \in Completed :
        /\ FlagsOf(Declared(i)) = {"NotUpdatable", "NotSettable", "Id"}
        /\ InShape(ResponseShape, i)

\* The number of Option wrappers a type starts with, as is_option_type sees them.
RECURSIVE OptionDepth(_)
OptionDepth(ty) ==
    IF is_option_type(ty)
    THEN 1 + (IF Len(ty.args) > 0 THEN OptionDepth(ty.args[1]) ELSE 0)
    ELSE 0

\* The visible type of a field, from its declared type and its flags.
VisibleType(i) ==
    name_type(Declared(i).ty, Has(i, "RepresentableAsString"))

\* C5: with HasDefault the type in Create<Name>Request is optional(visible
\* type) and the type in New<Name> is optional(declared type); without
\* HasDefault they are the visible type and the declared type, unwrapped.
C5_CreateSideWrapping ==
    \A i \in Completed :
        /\ InShape(CreateRequestShape, i) =>
               EntryOf(CreateRequestShape, i).ty =
                   IF Has(i, "HasDefault") THEN make_option(VisibleType(i))
                   ELSE VisibleType(i)
        /\ InShape(NewShape, i) =>
               EntryOf(NewShape, i).ty =
                   IF Has(i, "HasDefault") THEN make_option(Declared(i).ty)
                   ELSE Declared(i).ty

C5_Witness ==
    /\ Returned
    /\ \E i \in Completed :
        /\ Has(i, "HasDefault") /\ Has(i, "RepresentableAsString")
        /\ Declared(i).ty = TyI32
        /\ InShape(NewShape, i)
        /\ EntryOf(NewShape, i).ty = TyOptionI32
        /\ InShape(CreateRequestShape, i)
        /\ EntryOf(CreateRequestShape, i).ty = TyOptionString

C7_ResponseBeforeWrapping ==
    \A i \in Completed :
        InShape(ResponseShape, i) =>
            /\ EntryOf(ResponseShape, i).name =
                   name_ident(Declared(i).ident, Has(i, "RepresentableAsString"))
            /\ EntryOf(ResponseShape, i).ty = VisibleType(i)
            /\ Has(i, "HasDefault") /\ ~is_option_type(VisibleType(i))
                   => ~is_option_type(EntryOf(ResponseShape, i).ty)

C7_Witness ==
    /\ Returned
    /\ \E i \in Completed :
        /\ Has(i, "HasDefault")
        /\ InShape(ResponseShape, i)
        /\ EntryOf(ResponseShape, i).ty = TyI32
        /\ InShape(CreateRequestShape, i)
        /\ EntryOf(CreateRequestShape, i).ty = TyOptionI32

\* The types a run has written into its vectors.
TypesInShapes ==
    {e.ty : e \in Range(entity_fields) \cup Range(NewShape)
                    \cup Range(CreateRequestShape) \cup Range(UpdateShape)
                    \cup Range(UpdateRequestShape) \cup Range(ResponseShape)}

Rewritten == Completed \cup (IF result.kind = "Panic" THEN {fi} ELSE {})

\* The name a field is to have in the user-facing shapes.
ExpectedName(i) ==
    LET ident == Declared(i).ident
    IN  IF Has(i, "RepresentableAsString") /\ ident[Len(ident)] = "_id"
        THEN SubSeq(ident, 1, Len(ident) - 1)
        ELSE ident

\* C9: a field flagged RepresentableAsString whose name ends in _id gets the
\* name without that suffix as its visible name, a flagged field without
\* the suffix and every field without the flag keep their declared name.
C9_NameRewriting ==
    \A i \in Rewritten :
        /\ i \in Completed
        /\ InShape(CreateRequestShape, i)
               => EntryOf(CreateRequestShape, i).name = ExpectedName(i)
        /\ InShape(UpdateRequestShape, i)
               => EntryOf(UpdateRequestShape, i).name = ExpectedName(i)
        /\ InShape(ResponseShape, i)
               => EntryOf(ResponseShape, i).name = ExpectedName(i)

NamesUnique(shape) ==
    \A k, l \in 1..Len(shape) : shape[k].name = shape[l].name => k = l

\* C11: when the declared field names are unique, the field names of each of
\* the five derived shapes are unique within that shape.
C11_UniqueNamesInShapes ==
    Returned /\ UniqueNames(ast.fields) =>
        /\ NamesUnique(NewShape)
        /\ NamesUnique(CreateRequestShape)
        /\ NamesUnique(UpdateShape)
        /\ NamesUnique(UpdateRequestShape)
        /\ NamesUnique(ResponseShape)

\* The source fields of a shape come in the declared order, none twice.
InDeclaredOrder(shape) ==
    /\ \A k \in 1..Len(shape) : shape[k].src \in 1..Len(ast.fields)
    /\ \A k, l \in 1..Len(shape) : k < l => shape[k].src < shape[l].src

\* C12: the source fields of each of the five derived shapes are a
\* subsequence of the declared fields: fields are left out, never reordered
\* or repeated.
C12_OrderPreserved ==
    /\ InDeclaredOrder(NewShape)
    /\ InDeclaredOrder(CreateRequestShape)
    /\ InDeclaredOrder(UpdateShape)
    /\ InDeclaredOrder(UpdateRequestShape)
    /\ InDeclaredOrder(ResponseShape)
    /\ \A k \in 1..Len(NewShape) :
           NewShape[k].name = Declared(NewShape[k].src).ident
    /\ \A k \in 1..Len(UpdateShape) :
           UpdateShape[k].name = Declared(UpdateShape[k].src).ident

C12_Witness ==
    /\ Returned
    /\ Len(ast.fields) = 3
    /\ Len(NewShape) = 2
    /\ NewShape[1].src = 2 /\ NewShape[2].src = 3
    /\ Len(ResponseShape) = 2
    /\ Len(UpdateRequestShape) = 2

\* The entity has a #[diesel(table_name = ...)] attribute.
HasStorageLocation ==
    \E k \in 1..Len(ast.attrs) :
        ast.attrs[k].path = "diesel" /\ ast.attrs[k].left = "table_name"

HasUnnamedField ==
    ast.data = "Struct" /\ \E i \in 1..Len(ast.fields) : Declared(i).ident = NoIdent

\* The flag tokens of a field that are none of the six flags.
UnknownTokens(f) == FlagsOf(f) \ Flags

HasUnknownToken ==
    ast.data = "Struct"
        /\ \E i \in 1..Len(ast.fields) : UnknownTokens(Declared(i)) # {}

NoShapeYet ==
    /\ new_fields = <<>>
    /\ create_request_fields = <<>>
    /\ update_fields = <<>>
    /\ update_request_fields = <<>>
    /\ response_fields = <<>>

\* C13: an entity with a field that carries an unknown flag token fails with
\* an error that names that field and the token, and returns no shapes.
C13_UnknownFlagNamesField ==
    pc = "done" /\ HasStorageLocation /\ ~HasUnnamedField /\ HasUnknownToken =>
        /\ result.kind = "Err"
        /\ result.message[1] = <<"Unknown meta ">>
        /\ \E t \in UnknownTokens(Declared(fi)) : <<t>> \in Range(result.message)
        /\ Declared(fi).ident \in Range(result.message)

\* C14: an entity without a #[diesel(table_name = ...)] attribute fails with
\* the missing-table error and returns no shapes, whatever its fields are:
\* no field of it is ever looked at.
C14_MissingStorageLocation ==
    ~HasStorageLocation =>
        /\ pc \in {"start", "done"}
        /\ NoShapeYet /\ entity_fields = <<>>
        /\ pc = "done" =>
               result =
                   Err(<<<<"No #[diesel(table_name = ...)] attribute encountered">>>>)

C14_Witness ==
    /\ pc = "done"
    /\ ~HasStorageLocation
    /\ ast.attrs # <<>>
    /\ Len(ast.fields) = 1
    /\ FlagsOf(Declared(1)) = {"HasDefault"}
    /\ result.kind = "Err"

\* C15: an entity with a table name in which a field has no name fails with
\* the non-named-field error and returns no shapes.
C15_NonNamedField ==
    HasStorageLocation /\ HasUnnamedField =>
        /\ ~Returned
        /\ NoShapeYet
        /\ pc = "done" =>
            /\ result.kind = "Err"
            /\ result.message[1] = <<"Non-struct field encountered ">>

C15_Witness ==
    /\ pc = "done"
    /\ HasStorageLocation
    /\ HasUnnamedField
    /\ Len(ast.fields) = 2
    /\ result.kind = "Err"
    /\ result.message[2] = Declared(1)

\* The input passes ingestion: a table name, named fields, known tokens.
WellFormedInput == HasStorageLocation /\ ~HasUnnamedField /\ ~HasUnknownToken

ShapeNames == {"new", "create_request", "update", "update_request", "response"}

\* C16: a run that fails at some field, even at the last one after earlier
\* fields were pushed, returns an error and none of the shapes; a run that
\* succeeds returns the five shapes together, each with all it accumulated.
C16_NoPartialOutput ==
    /\ pc # "done" => result = NoResult
    /\ pc = "done" /\ ~WellFormedInput => result.kind \in {"Err", "Panic"}
    /\ pc = "done" /\ result.kind \in {"Err", "Panic"}
           => "expanded" \notin DOMAIN result
    /\ pc = "done" /\ result.kind \notin {"Err", "Panic"} =>
        /\ result.kind = "Ok"
        /\ DOMAIN result.expanded = ShapeNames
        /\ ast.data = "Struct" => Len(entity_fields) = Len(ast.fields)
        /\ result.expanded.new.fields = new_fields
        /\ result.expanded.create_request.fields = create_request_fields
        /\ result.expanded.update.fields = update_fields
        /\ result.expanded.update_request.fields = update_request_fields
        /\ result.expanded.response.fields = response_fields

C16_Witness ==
    /\ pc = "done"
    /\ result.kind = "Err"
    /\ Len(ast.fields) = 2
    /\ fi = 2
    /\ Len(entity_fields) = 1
    /\ Len(new_fields) = 1 /\ Len(response_fields) = 1

\* C17: the name/type transformer is total: for every field with a name, a
\* type and recognised flags it yields a visible name and a visible type, so
\* a well-formed entity is derived with every field transformed.
C17_TransformerTotal ==
    /\ result.kind # "Panic"
    /\ pc = "done" /\ WellFormedInput /\ ast.data = "Struct"
           => Returned /\ Completed = 1..Len(ast.fields)

\* C18: adding a flag never adds a field to a shape: no token read after
\* the tokens of a flag set turns one of the five push decisions back on,
\* and a field is pushed to a shape only if its decision is still on after
\* the last token.
C18_FlagMonotonicity ==
    [][/\ pc = "attrs" /\ pc' = "attrs" =>
            /\ push_to_new' => push_to_new
            /\ push_to_create_request' => push_to_create_request
            /\ push_to_update' => push_to_update
            /\ push_to_update_request' => push_to_update_request
            /\ push_to_response' => push_to_response
       /\ pc = "attrs" /\ pc' = "field" =>
            /\ Len(new_fields') > Len(new_fields) => push_to_new
            /\ Len(create_request_fields') > Len(create_request_fields)
                   => push_to_create_request
            /\ Len(update_fields') > Len(update_fields) => push_to_update
            /\ Len(update_request_fields') > Len(update_request_fields)
                   => push_to_update_request
            /\ Len(response_fields') > Len(response_fields)
                   => push_to_response]_vars

\* A flag has been added, in an attribute of its own, to a flag set that had
\* turned the response and the update shapes off: they stay off.
C18_Witness ==
    /\ pc = "attrs"
    /\ Len(Declared(fi).attrs) = 2
    /\ ai = 2 /\ mi = 2
    /\ {"NotViewable", "NotSettable"} \subseteq Range(Declared(fi).attrs[1].metas)
    /\ Declared(fi).attrs[2].metas = <<"HasDefault">>
    /\ "HasDefault" \notin Range(Declared(fi).attrs[1].metas)
    /\ option_in_new
    /\ ~push_to_response /\ ~push_to_update /\ ~push_to_update_request
    /\ ~push_to_create_request

\* What a field contributes to a shape: nothing, or one entry.
Contribution(shape, i) ==
    IF InShape(shape, i) THEN <<EntryOf(shape, i)>> ELSE <<>>

\* C19: what a field contributes to each shape is a function of the set of
\* its flags, its name and its declared type: the order of the tokens,
\* repeated tokens, the split over several attributes and the other fields
\* of the entity do not change it.
C19_DependsOnFlagSetOnly ==
    \A i \in Completed :
        LET F == FlagsOf(Declared(i))
            ident == Declared(i).ident
            ty == Declared(i).ty
            repr == "RepresentableAsString" \in F
            opt == "HasDefault" \in F
            updatable == F \cap {"NotUpdatable", "NotSettable"} = {}
        IN  /\ Contribution(NewShape, i) =
                   IF "Id" \in F THEN <<>>
                   ELSE <<Pushed(ident, new_type(ty, opt), i)>>
            /\ Contribution(CreateRequestShape, i) =
                   IF "NotSettable" \in F THEN <<>>
                   ELSE <<Pushed(ExpectedName(i),
                                 name_type_in_create(ty, repr, opt), i)>>
            /\ Contribution(UpdateShape, i) =
                   IF updatable THEN <<Pushed(ident, field_type_opt(ty), i)>>
                   ELSE <<>>
            /\ Contribution(UpdateRequestShape, i) =
                   IF updatable
                   THEN <<Pushed(ExpectedName(i), name_type_opt(ty, repr, opt), i)>>
                   ELSE <<>>
            /\ Contribution(ResponseShape, i) =
                   IF "NotViewable" \in F THEN <<>>
                   ELSE <<Pushed(ExpectedName(i), name_type(ty, repr), i)>>

\* A field whose tokens are split over two attributes, with NotUpdatable
\* written twice.
C19_Witness ==
    /\ Returned
    /\ \E i \in Completed :
        /\ Len(Declared(i).attrs) = 2
        /\ Len(Declared(i).attrs[1].metas) >= 3
        /\ "NotUpdatable" \in Range(Declared(i).attrs[1].metas)
        /\ Declared(i).attrs[2].metas = <<"NotUpdatable">>
        /\ ~InShape(UpdateShape, i)
        /\ InShape(CreateRequestShape, i)

\* C20: a field flagged exactly {Id, NotSettable} is in <Name>Response and
\* in none of New<Name>, Create<Name>Request, Update<Name>,
\* Update<Name>Request.
C20_IdNotSettable ==
    \A i \in Completed :
        FlagsOf(Declared(i)) = {"Id", "NotSettable"} =>
            /\ ~InShape(NewShape, i)
            /\ ~InShape(CreateRequestShape, i)
            /\ ~InShape(UpdateShape, i)
            /\ ~InShape(UpdateRequestShape, i)
            /\ InShape(ResponseShape, i)

C20_Witness ==
    /\ Returned
    /\ \E i \in Completed :
        /\ FlagsOf(Declared(i)) = {"Id", "NotSettable"}
        /\ NewShape = <<>> /\ CreateRequestShape = <<>>
        /\ UpdateShape = <<>> /\ UpdateRequestShape = <<>>
        /\ Len(ResponseShape) = 1

\* C21: a field whose declared type T is no Option and whose flags are
\* exactly {HasDefault} is in all five shapes, with type Option<T> in
\* New<Name>, Create<Name>Request, Update<Name> and Update<Name>Request (one
\* level of Option in each) and with type T in <Name>Response.
C21_HasDefaultAlone ==
    \A i \in Completed :
        LET T == Declared(i).ty
            OptionT == PathType(<<"Option">>, <<T>>)
        IN  FlagsOf(Declared(i)) = {"HasDefault"} /\ ~is_option_type(T) =>
                /\ InShape(NewShape, i)
                /\ EntryOf(NewShape, i).ty = OptionT
                /\ InShape(CreateRequestShape, i)
                /\ EntryOf(CreateRequestShape, i).ty = OptionT
                /\ InShape(UpdateShape, i)
                /\ EntryOf(UpdateShape, i).ty = OptionT
                /\ InShape(UpdateRequestShape, i)
                /\ EntryOf(UpdateRequestShape, i).ty = OptionT
                /\ InShape(ResponseShape, i)
                /\ EntryOf(ResponseShape, i).ty = T

C21_Witness ==
    /\ Returned
    /\ \E i \in Completed :
        /\ FlagsOf(Declared(i)) = {"HasDefault"}
        /\ Declared(i).ty = TyTuple
        /\ EntryOf(NewShape, i).ty = PathType(<<"Option">>, <<TyTuple>>)
        /\ EntryOf(UpdateRequestShape, i).ty = PathType(<<"Option">>, <<TyTuple>>)
        /\ EntryOf(ResponseShape, i).ty = TyTuple

\* The five structs the documentation's example lists for Widget.
WidgetExpansion ==
    LET label(ty) == Pushed(<<"label">>, ty, 2)
        count(ty) == Pushed(<<"count">>, ty, 3)
    IN  [new |-> Struct(<<"New", "Widget">>, "widgets",
                        <<label(TyString), count(TyOptionI32)>>),
         create_request |->
             Struct(<<"Create", "Widget", "Request">>, "",
                    <<label(TyString), count(TyOptionI32)>>),
         update |-> Struct(<<"Update", "Widget">>, "widgets",
                           <<label(TyOptionString), count(TyOptionI32)>>),
         update_request |->
             Struct(<<"Update", "Widget", "Request">>, "",
                    <<label(TyOptionString), count(TyOptionI32)>>),
         response |-> Struct(<<"Widget", "Response">>, "",
                             <<label(TyString), count(TyI32)>>)]

\* C22: for the entity Widget (id: int with NotUpdatable, NotViewable,
\* NotSettable and Id; label: string without flags; count: int with
\* HasDefault) the run ends with NewWidget{label: string, count: Option<int>},
\* CreateWidgetRequest the same, UpdateWidget and UpdateWidgetRequest
\* {label: Option<string>, count: Option<int>} and WidgetResponse{label:
\* string, count: int}; id is in none of the five.
C22_WidgetEndToEnd ==
    ast = Widget /\ pc = "done" =>
        /\ result = Ok(WidgetExpansion)
        /\ \A shape \in {NewShape, CreateRequestShape, UpdateShape,
                         UpdateRequestShape, ResponseShape} :
               /\ ~InShape(shape, 1)
               /\ \A k \in 1..Len(shape) : shape[k].name # <<"id">>

C22_Witness ==
    /\ ast = Widget
    /\ Returned
    /\ Len(NewShape) = 2
    /\ Len(ResponseShape) = 2

\* C23 as stated: a completed field flagged NotSettable is in neither
\* Create<Name>Request nor Update<Name>Request nor Update<Name>, and is in
\* New<Name>, whatever its other flags are.
C23_NotSettableInNewForAllFlags ==
    \A i \in Completed :
        Has(i, "NotSettable") =>
            /\ ~InShape(CreateRequestShape, i)
            /\ ~InShape(UpdateRequestShape, i)
            /\ ~InShape(UpdateShape, i)
            /\ InShape(NewShape, i)

\* C23, amended: a completed field flagged NotSettable is in neither request
\* shape and not in Update<Name>, for every combination of the other flags;
\* it is in New<Name> exactly when its flags do not contain Id.
C23_NotSettableMembership ==
    \A i \in Completed :
        Has(i, "NotSettable") =>
            /\ ~InShape(CreateRequestShape, i)
            /\ ~InShape(UpdateRequestShape, i)
            /\ ~InShape(UpdateShape, i)
            /\ InShape(NewShape, i) <=> ~Has(i, "Id")

C23_Witness ==
    /\ Returned
    /\ \E i \in Completed :
        /\ FlagsOf(Declared(i)) = {"NotSettable"}
        /\ InShape(NewShape, i)
        /\ ~InShape(CreateRequestShape, i)
        /\ ~InShape(UpdateRequestShape, i)
        /\ ~InShape(UpdateShape, i)

\* C24: New<Name> and Update<Name> keep the declared name of every field
\* (no _id stripping) and its declared type, wrapped in Option where the
\* shape requires it; Create<Name>Request, Update<Name>Request and
\* <Name>Response carry the visible name and the visible type.
C24_RewriteOnlyUserFacing ==
    \A i \in Completed :
        LET d == Declared(i)
        IN  /\ InShape(NewShape, i) =>
                /\ EntryOf(NewShape, i).name = d.ident
                /\ EntryOf(NewShape, i).ty =
                       IF Has(i, "HasDefault") THEN make_option(d.ty) ELSE d.ty
            /\ InShape(UpdateShape, i) =>
                /\ EntryOf(UpdateShape, i).name = d.ident
                /\ EntryOf(UpdateShape, i).ty = make_option(d.ty)
            /\ InShape(CreateRequestShape, i) =>
                /\ EntryOf(CreateRequestShape, i).name = ExpectedName(i)
                /\ EntryOf(CreateRequestShape, i).ty =
                       IF Has(i, "HasDefault") THEN make_option(VisibleType(i))
                       ELSE VisibleType(i)
            /\ InShape(UpdateRequestShape, i) =>
                /\ EntryOf(UpdateRequestShape, i).name = ExpectedName(i)
                /\ EntryOf(UpdateRequestShape, i).ty =
                       make_option(IF Has(i, "HasDefault")
                                   THEN make_option(VisibleType(i))
                                   ELSE VisibleType(i))
            /\ InShape(ResponseShape, i) =>
                /\ EntryOf(ResponseShape, i).name = ExpectedName(i)
                /\ EntryOf(ResponseShape, i).ty = VisibleType(i)

C24_Witness ==
    /\ Returned
    /\ \E i \in Completed :
        /\ Has(i, "RepresentableAsString")
        /\ Declared(i).ident = NameCId
        /\ Declared(i).ty = TyI32
        /\ EntryOf(NewShape, i).name = NameCId
        /\ EntryOf(NewShape, i).ty = TyI32
        /\ EntryOf(UpdateShape, i).name = NameCId
        /\ EntryOf(UpdateShape, i).ty = TyOptionI32
        /\ EntryOf(CreateRequestShape, i).name = NameC
        /\ EntryOf(CreateRequestShape, i).ty = TyString
        /\ EntryOf(ResponseShape, i).name = NameC

(***************************************************************************)
(* The server.  authentication.rs: the bearer token of a request under     *)
(* /api is decoded and its user loaded before the handler runs.            *)
(***************************************************************************)
ResultOk(v) == [kind |-> "Ok", v |-> v]

ResultErr(e) == [kind |-> "Err", e |-> e]

\* The claims of a token, whether its signature decodes and whether its exp
\* is in the past.
Token(sub, signed, expired) ==
    [sub |-> sub, signed |-> signed, expired |-> expired]

\* Tokens of the two users, of a user whose row is gone, a forged token and
\* an expired one.
Tokens ==
    {Token(1, TRUE, FALSE), Token(2, TRUE, FALSE), Token(3, TRUE, FALSE),
     Token(1, FALSE, FALSE), Token(2, TRUE, TRUE)}

jwt_validator_generator(token) ==
    IF ~token.signed THEN ResultErr("TokenDecodeError")
    ELSE IF token.expired THEN ResultErr("TokenExpired")
    ELSE IF User(token.sub) \notin users THEN ResultErr("UserNotFound")
    ELSE ResultOk(User(token.sub))

(***************************************************************************)
(* Queries of diesel, as the handlers build them.                          *)
(***************************************************************************)
\* A belonging_to that does not look at the parent.
belonging_to_Anyone(table, user) == table

\* $ent::belonging_to(&user): the rows whose user_id is the id of user.
belonging_to(table, user) == {r \in table : r.user_id = user.id}

\* .first(): a row of the query, NotFound when it has none.
first(rows) ==
    IF rows = {} THEN ResultErr("NotFound")
    ELSE ResultOk(CHOOSE r \in rows : \A o \in rows : r.id <= o.id)

\* get_impls!: GetIdByNameAndUser<String, i32>.
get_id_by_name_and_user(table, p_name, user) ==
    LET found == first({r \in table : r.name = p_name /\ r.user_id = user.id})
    IN  IF found.kind = "Ok" THEN ResultOk(found.v.id) ELSE found

\* get_impls!: GetIdByNameAndUser<Option<String>, Option<i32>>.
get_id_by_name_and_user_opt(table, name, user) ==
    IF ~name.some THEN ResultOk(None)
    ELSE LET found == get_id_by_name_and_user(table, name.v, user)
         IN  IF found.kind = "Ok" THEN ResultOk(Some(found.v)) ELSE found

\* get_impls!: GetNameById<i32, String>; the row is found by its id alone.
get_name_by_id(table, p_id) ==
    LET found == first({r \in table : r.id = p_id})
    IN  IF found.kind = "Ok" THEN ResultOk(found.v.name) ELSE found

\* get_impls!: GetNameById<Option<i32>, Option<String>>.
get_name_by_id_opt(table, id) ==
    IF ~id.some THEN ResultOk(None)
    ELSE LET found == get_name_by_id(table, id.v)
         IN  IF found.kind = "Ok" THEN ResultOk(Some(found.v)) ELSE found

\* The unique index on (user_id, name) of currencies, sources and
\* categories: the insert or update of row would violate it.
UniqueViolation(table, row) ==
    \E r \in table :
        r.id # row.id /\ r.user_id = row.user_id /\ r.name = row.name

\* The column default of archived, used when the insert gives no value.
DefaultArchived == FALSE

\* insert_into(table).values(creatable).get_result(): the row with the next
\* id of the sequence, or the violation of the unique index.
insert_into(table, row) ==
    IF UniqueViolation(table, row) THEN ResultErr("UniqueViolation")
    ELSE ResultOk(row)

RECURSIVE weighted_sum(_, _)
\* The sum of the amounts of rows, one term for each amount in amounts.
weighted_sum(amounts, rows) ==
    IF amounts = {} THEN 0
    ELSE LET a == CHOOSE x \in amounts : TRUE
         IN  a * Cardinality({r \in rows : r.amount = a})
                 + weighted_sum(amounts \ {a}, rows)

\* .iter().sum() / sum(amount) over the amounts of a set of rows.
SumAmounts(rows) == weighted_sum({r.amount : r \in rows}, rows)

(***************************************************************************)
(* chrono: the date and time strings of the requests and responses.  A      *)
(* string is the sequence of its pieces.                                    *)
(***************************************************************************)
\* The decimal numerals of the strings and their values.
Numerals ==
    ("2023" :> 2023) @@ ("01" :> 1) @@ ("02" :> 2) @@ ("13" :> 13)
        @@ ("05" :> 5) @@ ("09" :> 9) @@ ("00" :> 0)

TextOf(n) == CHOOSE p \in DOMAIN Numerals : Numerals[p] = n

\* NaiveDate::parse_from_str(s, "%F"): year-month-day.
NaiveDate_parse_from_str(s) ==
    IF /\ Len(s) = 3
       /\ \A k \in 1..3 : s[k] \in DOMAIN Numerals
       /\ Numerals[s[2]] \in 1..12
       /\ Numerals[s[3]] \in 1..31
    THEN ResultOk(<<Numerals[s[1]], Numerals[s[2]], Numerals[s[3]]>>)
    ELSE ResultErr("DateTimeParseError")

\* NaiveDate -> NaiveDateTime: the midnight of the date.
and_midnight(d) == <<d[1], d[2], d[3], 0>>

\* NaiveDateTime::parse_from_str(s, "%+"): year-month-day, T, the time.
NaiveDateTime_parse_from_str(s) ==
    IF /\ Len(s) = 5
       /\ s[4] = "T"
       /\ \A k \in {1, 2, 3, 5} : s[k] \in DOMAIN Numerals
       /\ Numerals[s[2]] \in 1..12
       /\ Numerals[s[3]] \in 1..31
    THEN ResultOk(<<Numerals[s[1]], Numerals[s[2]], Numerals[s[3]],
                    Numerals[s[5]]>>)
    ELSE ResultErr("DateTimeParseError")

\* date.format("%F"), created_at.format("%+") and date.format("%Y-%m").
format_F(t) == <<TextOf(t[1]), TextOf(t[2]), TextOf(t[3])>>

format_plus(t) == <<TextOf(t[1]), TextOf(t[2]), TextOf(t[3]), "T", TextOf(t[4])>>

format_Ym(t) == <<TextOf(t[1]), TextOf(t[2])>>

\* The order of NaiveDateTime.
DateTimeLt(a, b) ==
    \E k \in 1..4 : a[k] < b[k] /\ \A j \in 1..(k - 1) : a[j] = b[j]

\* The lower case of the letters the descriptions are written with.
to_lower(c) ==
    LET upper == ("R" :> "r") @@ ("P" :> "p")
    IN  IF c \in DOMAIN upper THEN upper[c] ELSE c

\* description ILIKE '%q%': q matches somewhere in the description, without
\* regard to case; an underscore of q matches any one character.
ilike(description, q) ==
    \E start \in 1..(Len(description) - Len(q) + 1) :
        \A k \in 1..Len(q) :
            \/ q[k] = "_"
            \/ to_lower(q[k]) = to_lower(description[start + k - 1])

(***************************************************************************)
(* model.rs: the conversions between the generated structs.                *)
(***************************************************************************)
\* StatefulTryFrom<CreateCurrencyRequest> for NewCurrency.
NewCurrency_stateful_try_from(value, user) ==
    ResultOk([user_id |-> user.id, name |-> value.name,
              rate_to_fixed |-> value.rate_to_fixed,
              archived |-> value.archived])

\* StatefulTryFrom<UpdateCurrencyRequest> for UpdateCurrency.
UpdateCurrency_stateful_try_from(value, user) ==
    ResultOk([name |-> value.name, rate_to_fixed |-> value.rate_to_fixed,
              archived |-> value.archived])

\* StatefulTryFrom<Currency> for CurrencyResponse.
CurrencyResponse_stateful_try_from(value) ==
    ResultOk([name |-> value.name, rate_to_fixed |-> value.rate_to_fixed,
              archived |-> value.archived])

\* StatefulTryFrom<CreateSourceRequest> for NewSource: the amount of the
\* request is not read.
NewSource_stateful_try_from(value, user) ==
    LET currency_id == get_id_by_name_and_user(currencies, value.currency, user)
    IN  IF currency_id.kind = "Err" THEN ResultErr("ReferencedDoesNotExist")
        ELSE ResultOk([user_id |-> user.id, name |-> value.name,
                       currency_id |-> currency_id.v, amount |-> 0,
                       archived |-> value.archived])

\* StatefulTryFrom<UpdateSourceRequest> for UpdateSource.
UpdateSource_stateful_try_from(value, user) ==
    LET currency_id ==
            get_id_by_name_and_user_opt(currencies, value.currency, user)
    IN  IF currency_id.kind = "Err" THEN ResultErr("ReferencedDoesNotExist")
        ELSE ResultOk([name |-> value.name, currency_id |-> currency_id.v,
                       amount |-> value.amount, archived |-> value.archived])

\* StatefulTryFrom<Source> for SourceResponse.
SourceResponse_stateful_try_from(value) ==
    LET currency == get_name_by_id(currencies, value.currency_id)
    IN  IF currency.kind = "Err" THEN ResultErr("ReferencedDoesNotExist")
        ELSE ResultOk([name |-> value.name, currency |-> currency.v,
                       amount |-> value.amount, archived |-> value.archived])

\* StatefulTryFrom<CreateCategoryRequest> for NewCategory.
NewCategory_stateful_try_from(value, user) ==
    ResultOk([user_id |-> user.id, name |-> value.name,
              archived |-> value.archived])

\* StatefulTryFrom<UpdateCategoryRequest> for UpdateCategory.
UpdateCategory_stateful_try_from(value, user) ==
    ResultOk([name |-> value.name, archived |-> value.archived])

\* StatefulTryFrom<Category> for CategoryResponse.
CategoryResponse_stateful_try_from(value) ==
    ResultOk([name |-> value.name, archived |-> value.archived])

\* StatefulTryFrom<CreateEntryRequest> for NewEntry: the lookups and the
\* parse in the order of the code, the first failure is returned.
NewEntry_stateful_try_from(value, user) ==
    LET new_secondary_source_id ==
            get_id_by_name_and_user_opt(sources, value.secondary_source, user)
        category_id == get_id_by_name_and_user(categories, value.category, user)
        date == NaiveDate_parse_from_str(value.date)
        currency_id == get_id_by_name_and_user(currencies, value.currency, user)
        source_id == get_id_by_name_and_user(sources, value.source, user)
    IN  IF new_secondary_source_id.kind = "Err"
        THEN ResultErr("ReferencedDoesNotExist")
        ELSE IF category_id.kind = "Err" THEN ResultErr("ReferencedDoesNotExist")
        ELSE IF date.kind = "Err" THEN ResultErr("DateTimeParseError")
        ELSE IF currency_id.kind = "Err" THEN ResultErr("ReferencedDoesNotExist")
        ELSE IF source_id.kind = "Err" THEN ResultErr("ReferencedDoesNotExist")
        ELSE ResultOk(
                 [user_id |-> user.id,
                  description |-> value.description,
                  category_id |-> category_id.v,
                  amount |-> value.amount,
                  date |-> and_midnight(date.v),
                  created_at |-> None,
                  currency_id |-> currency_id.v,
                  entry_type |-> value.entry_type,
                  source_id |-> source_id.v,
                  secondary_source_id |-> new_secondary_source_id.v,
                  conversion_rate |->
                      IF new_secondary_source_id.v.some
                      THEN value.conversion_rate ELSE None,
                  conversion_rate_to_fixed |-> value.conversion_rate_to_fixed,
                  archived |-> value.archived])

\* StatefulTryFrom<Entry> for EntryResponse.
EntryResponse_stateful_try_from(value) ==
    LET category == get_name_by_id(categories, value.category_id)
        currency == get_name_by_id(currencies, value.currency_id)
        source == get_name_by_id(sources, value.source_id)
        secondary_source == get_name_by_id_opt(sources, value.secondary_source_id)
    IN  IF \/ category.kind = "Err" \/ currency.kind = "Err"
           \/ source.kind = "Err" \/ secondary_source.kind = "Err"
        THEN ResultErr("ReferencedDoesNotExist")
        ELSE ResultOk(
                 [id |-> value.id,
                  description |-> value.description,
                  category |-> category.v,
                  amount |-> value.amount,
                  date |-> format_F(value.date),
                  created_at |-> format_plus(value.created_at),
                  currency |-> currency.v,
                  entry_type |-> value.entry_type,
                  source |-> source.v,
                  secondary_source |-> secondary_source.v,
                  conversion_rate |-> value.conversion_rate,
                  conversion_rate_to_fixed |-> value.conversion_rate_to_fixed,
                  archived |-> value.archived])

\* GetNetAmount for Currency: the amounts of its sources that are not archived.
Currency_get_net_amount(self) ==
    SumAmounts({s \in sources : s.currency_id = self.id /\ ~s.archived})

\* GetNetAmount for Source.
Source_get_net_amount(self) == self.amount

\* GetNetAmount for Category: the amounts of its entries that are not archived.
Category_get_net_amount(self) ==
    SumAmounts({e \in entries : e.category_id = self.id /\ ~e.archived})

\* consts::EPSILON, the unit the amounts are counted in.
EPSILON == 1

abs(x) == IF x < 0 THEN 0 - x ELSE x

\* A net amount that never stops an archive.
exceeds_epsilon_Never(net_amount) == FALSE

\* (net_amount - 0f64).abs() > consts::EPSILON
exceeds_epsilon(net_amount) == abs(net_amount - 0) > EPSILON

(***************************************************************************)
(* Entry::find_by_filter.                                                   *)
(***************************************************************************)
\* An EntryQuery without any parameter.
EntryQuery ==
    [ids |-> None, sources |-> None, currencies |-> None, categories |-> None,
     amount |-> None, min_amount |-> None, max_amount |-> None, date |-> None,
     after |-> None, before |-> None, created_after |-> None,
     created_before |-> None, description |-> None, entry_types |-> None,
     limit |-> None, sort |-> None]

\* The ids of the names that get_id_by_name_and_user finds (filter_map .ok()).
ids_of_names(table, names, user) ==
    {get_id_by_name_and_user(table, n, user).v :
        n \in {m \in Range(names) :
                 get_id_by_name_and_user(table, m, user).kind = "Ok"}}

\* A row x comes before a row y in the ORDER BY of the sort parameter.
order_before(sort, x, y) ==
    IF ~sort.some THEN FALSE
    ELSE CASE sort.v = "amount_asc" -> x.amount < y.amount
           [] sort.v = "amount_desc" -> x.amount > y.amount
           [] sort.v = "date_asc" -> DateTimeLt(x.date, y.date)
           [] sort.v = "date_desc" -> DateTimeLt(y.date, x.date)
           [] OTHER -> FALSE

RECURSIVE subsets_of_size(_, _)
subsets_of_size(rows, n) ==
    IF n = 0 THEN {{}}
    ELSE UNION {{part \cup {r} : r \in rows \ part} :
                  part \in subsets_of_size(rows, n - 1)}

\* The results LIMIT allows: every row when there is no limit, else the
\* first limit rows of the order; rows the order does not tell apart, or
\* all rows without ORDER BY, come in the order the database picks.
limited(rows, limit, sort) ==
    IF ~limit.some THEN {rows}
    ELSE IF limit.v >= Cardinality(rows) THEN {rows}
    ELSE {part \in subsets_of_size(rows, limit.v) :
            \A x \in part, y \in rows \ part : ~order_before(sort, y, x)}

\* The Results find_by_filter can return: Err when a date or time of the
\* query does not parse, else the rows of entries that pass every filter
\* of the query, cut to its limit.  No filter reads entries.user_id.
find_by_filter(query_params, user) ==
    LET q == query_params
        unparsed ==
            \/ q.date.some /\ NaiveDate_parse_from_str(q.date.v).kind = "Err"
            \/ q.after.some /\ NaiveDate_parse_from_str(q.after.v).kind = "Err"
            \/ q.before.some /\ NaiveDate_parse_from_str(q.before.v).kind = "Err"
            \/ q.created_after.some
                   /\ NaiveDateTime_parse_from_str(q.created_after.v).kind = "Err"
            \/ q.created_before.some
                   /\ NaiveDateTime_parse_from_str(q.created_before.v).kind = "Err"
        filter(e) ==
            /\ q.ids.some => e.id \in Range(q.ids.v)
            /\ q.sources.some =>
                   e.source_id \in ids_of_names(sources, q.sources.v, user)
            /\ q.currencies.some =>
                   e.currency_id \in ids_of_names(currencies, q.currencies.v, user)
            /\ q.categories.some =>
                   e.category_id \in ids_of_names(categories, q.categories.v, user)
            /\ q.amount.some => e.amount = q.amount.v
            /\ q.min_amount.some => e.amount >= q.min_amount.v
            /\ q.max_amount.some => e.amount <= q.max_amount.v
            /\ q.date.some =>
                   e.date = and_midnight(NaiveDate_parse_from_str(q.date.v).v)
            /\ q.after.some =>
                   DateTimeLt(and_midnight(NaiveDate_parse_from_str(q.after.v).v),
                              e.date)
            /\ q.before.some =>
                   DateTimeLt(e.date,
                              and_midnight(NaiveDate_parse_from_str(q.before.v).v))
            /\ q.created_after.some =>
                   DateTimeLt(NaiveDateTime_parse_from_str(q.created_after.v).v,
                              e.created_at)
            /\ q.created_before.some =>
                   DateTimeLt(e.created_at,
                              NaiveDateTime_parse_from_str(q.created_before.v).v)
            /\ q.description.some => ilike(e.description, q.description.v)
            /\ q.entry_types.some => e.entry_type \in Range(q.entry_types.v)
    IN  IF unparsed THEN {ResultErr("DateTimeParseError")}
        ELSE {ResultOk(r_entries) :
                r_entries \in limited({e \in entries : filter(e)}, q.limit, q.sort)}

(***************************************************************************)
(* The requests.                                                            *)
(***************************************************************************)
CurrencyNames == {"USD", "EUR"}

SourceNames == {"Wallet", "Bank"}

CategoryNames == {"Rent", "Food"}

CreateCurrencyRequests ==
    {[name |-> "USD", rate_to_fixed |-> 2, archived |-> None],
     [name |-> "EUR", rate_to_fixed |-> 2, archived |-> None],
     [name |-> "EUR", rate_to_fixed |-> 1, archived |-> Some(TRUE)]}

UpdateCurrencyRequests ==
    {[name |-> None, rate_to_fixed |-> Some(2), archived |-> None],
     [name |-> Some("EUR"), rate_to_fixed |-> None, archived |-> None],
     [name |-> None, rate_to_fixed |-> None, archived |-> Some(FALSE)],
     [name |-> None, rate_to_fixed |-> None, archived |-> None]}

CreateSourceRequests ==
    {[name |-> "Wallet", currency |-> "USD", amount |-> 5, archived |-> None],
     [name |-> "Bank", currency |-> "USD", amount |-> 5, archived |-> None],
     [name |-> "Bank", currency |-> "EUR", amount |-> 0, archived |-> Some(TRUE)]}

UpdateSourceRequest == [name |-> None, currency |-> None, amount |-> None,
                        archived |-> None]

UpdateSourceRequests ==
    {[UpdateSourceRequest EXCEPT !.amount = Some(0)],
     [UpdateSourceRequest EXCEPT !.amount = Some(1)],
     [UpdateSourceRequest EXCEPT !.amount = Some(0 - 3)],
     [UpdateSourceRequest EXCEPT !.name = Some("Bank")],
     [UpdateSourceRequest EXCEPT !.currency = Some("EUR")],
     [UpdateSourceRequest EXCEPT !.archived = Some(TRUE)]}

CreateCategoryRequests ==
    {[name |-> "Rent", archived |-> None],
     [name |-> "Food", archived |-> None],
     [name |-> "Food", archived |-> Some(TRUE)]}

UpdateCategoryRequests ==
    {[name |-> Some("Food"), archived |-> None],
     [name |-> None, archived |-> Some(FALSE)],
     [name |-> None, archived |-> None]}

CreateEntryRequest ==
    [description |-> <<"R", "e", "n", "t">>, category |-> "Rent", amount |-> 2,
     date |-> <<"2023", "01", "01">>, currency |-> "USD",
     entry_type |-> "Spend", source |-> "Wallet", secondary_source |-> None,
     conversion_rate |-> Some(1), conversion_rate_to_fixed |-> 1,
     archived |-> None]

CreateEntryRequests ==
    {CreateEntryRequest,
     [CreateEntryRequest EXCEPT !.amount = 0 - 2, !.category = "Food",
                                !.date = <<"2023", "02", "01">>],
     [CreateEntryRequest EXCEPT !.secondary_source = Some("Bank"),
                                !.conversion_rate = Some(2),
                                !.entry_type = "Convert"],
     [CreateEntryRequest EXCEPT !.date = <<"2023", "13", "01">>],
     [CreateEntryRequest EXCEPT !.source = "Cash", !.archived = Some(TRUE)]}

\* The values of now() the database stamps created_at with.
Clock == {<<2023, 2, 2, 9>>}

\* BulkRequest: the ids of a bulk operation.
BulkRequests ==
    {[ids |-> <<>>], [ids |-> <<1>>], [ids |-> <<1, 3>>], [ids |-> <<2, 3, 9>>]}

EntryQueries ==
    {EntryQuery,
     [EntryQuery EXCEPT !.ids = Some(<<1, 3>>)],
     [EntryQuery EXCEPT !.sources = Some(<<"Wallet", "Cash">>)],
     [EntryQuery EXCEPT !.currencies = Some(<<"USD">>)],
     [EntryQuery EXCEPT !.categories = Some(<<"Food">>)],
     [EntryQuery EXCEPT !.amount = Some(2)],
     [EntryQuery EXCEPT !.min_amount = Some(3)],
     [EntryQuery EXCEPT !.max_amount = Some(2)],
     [EntryQuery EXCEPT !.min_amount = Some(2), !.max_amount = Some(2)],
     [EntryQuery EXCEPT !.date = Some(<<"2023", "01", "01">>)],
     [EntryQuery EXCEPT !.after = Some(<<"2023", "01", "01">>)],
     [EntryQuery EXCEPT !.before = Some(<<"2023", "02", "01">>)],
     [EntryQuery EXCEPT !.before = Some(<<"soon">>)],
     [EntryQuery EXCEPT !.created_after = Some(<<"2023", "01", "02", "T", "05">>)],
     [EntryQuery EXCEPT !.created_before = Some(<<"2023", "02", "01", "T", "05">>)],
     [EntryQuery EXCEPT !.created_after = Some(<<"2023", "01", "02">>)],
     [EntryQuery EXCEPT !.description = Some(<<"r", "E">>)],
     [EntryQuery EXCEPT !.description = Some(<<"_", "a">>)],
     [EntryQuery EXCEPT !.entry_types = Some(<<"Convert", "Lend">>)],
     [EntryQuery EXCEPT !.sort = Some("date_desc")],
     [EntryQuery EXCEPT !.ids = Some(<<1, 2, 3>>), !.limit = Some(0)],
     [EntryQuery EXCEPT !.ids = Some(<<1, 2, 3>>), !.limit = Some(1)],
     [EntryQuery EXCEPT !.ids = Some(<<1, 2, 3>>), !.limit = Some(2),
                        !.sort = Some("amount_asc")],
     [EntryQuery EXCEPT !.ids = Some(<<1, 2, 3>>), !.limit = Some(2),
                        !.sort = Some("newest")]}

(***************************************************************************)
(* handlers.rs: every handler is one action.  The request passed the       *)
(* bearer middleware, which put the user of its token into the request.     *)
(***************************************************************************)
HttpResponse(status, body) == [status |-> status, body |-> body]

\* http::internal: 500 with the text e.
internal(e) == HttpResponse(500, e)

\* The requests one run may serve.
Budget ==
    IF Cardinality(entries) > DefaultLimit THEN MaxBulkRequests ELSE MaxRequests

Accepting == served < Budget

\* The handler has answered the request of user.
Serve(handler, user_id, params, answer) ==
    /\ request' = [handler |-> handler, user |-> user_id, params |-> params]
    /\ response' = answer
    /\ served' = served + 1
    /\ UNCHANGED expansion

\* The value of a column the insert gives no value for.
or_default(column) == IF column.some THEN column.v ELSE DefaultArchived

\* A create handler that answers 200 whatever the insert returned.
created_response_AlwaysOk(creatable, created, specifier) == HttpResponse(200, <<>>)

\* create_handler!, lines 207-229: the answer to the conversion and the insert.
created_response(creatable, created, specifier) ==
    IF creatable.kind = "Err" THEN HttpResponse(400, <<creatable.e>>)
    ELSE IF created.kind = "Ok" THEN HttpResponse(200, <<>>)
    ELSE IF created.e = "UniqueViolation"
    THEN HttpResponse(400, <<specifier, " already exists">>)
    ELSE internal(<<"E014: Failed to create ", specifier>>)

\* update_handler!, lines 377-394: the answer to the conversion and the update.
updated_response(change_set, updated, specifier) ==
    IF change_set.kind = "Err" THEN HttpResponse(400, <<change_set.e>>)
    ELSE IF updated.kind = "Err"
    THEN internal(<<"E011: Could not update ", specifier>>)
    ELSE IF updated.v = 1 THEN HttpResponse(200, <<>>)
    ELSE IF updated.v = 0 THEN HttpResponse(404, <<>>)
    ELSE internal(<<"E010: Updated more than one ", specifier>>)

\* The column of a changeset: None leaves the column as it is.
set_column(old, change) == IF change.some THEN change.v ELSE old

\* diesel::update(rows).set(change_set).execute(), where changes gives every
\* row of the update the row it becomes: the number of rows, or the error of
\* a changeset without changes or of the unique index.
execute_update(table, changes, no_changes) ==
    IF no_changes THEN ResultErr("QueryBuilderError")
    ELSE IF \E r \in DOMAIN changes : UniqueViolation(table, changes[r])
    THEN ResultErr("UniqueViolation")
    ELSE ResultOk(Cardinality(DOMAIN changes))

\* The table after an update that went through.
updated_table(table, changes, change_set, updated) ==
    IF change_set.kind = "Ok" /\ updated.kind = "Ok"
    THEN (table \ DOMAIN changes) \cup {changes[r] : r \in DOMAIN changes}
    ELSE table

\* get_all_handler!, lines 260-268: the responses, or the first error.
collected_response(responses) ==
    IF \E r \in responses : r.kind = "Err"
    THEN HttpResponse(400, <<"ReferencedDoesNotExist">>)
    ELSE HttpResponse(200, {r.v : r \in responses})

\* get_by_name_handler!, lines 296-318.
fetched_response(fetched, converted, specifier) ==
    IF fetched.kind = "Err" THEN HttpResponse(404, <<specifier, " not found">>)
    ELSE IF converted.kind = "Err" THEN HttpResponse(400, <<converted.e>>)
    ELSE HttpResponse(200, converted.v)

\* archive_handler!, lines 415-441.
archive_response(fetched, net_amount, specifier, err) ==
    IF fetched.kind = "Err" THEN HttpResponse(404, <<specifier, " not found">>)
    ELSE IF exceeds_epsilon(net_amount) THEN HttpResponse(400, <<err>>)
    ELSE HttpResponse(200, <<>>)

\* The table after archive_handler!: the fetched row is archived when its
\* net amount allows it.
archived_table(table, fetched, net_amount) ==
    IF fetched.kind = "Ok" /\ ~exceeds_epsilon(net_amount)
    THEN (table \ {fetched.v}) \cup {[fetched.v EXCEPT !.archived = TRUE]}
    ELSE table

\* The bearer middleware turns the request down: no handler runs.
Unauthorized ==
    /\ Accepting
    /\ \E token \in Tokens :
        LET auth == jwt_validator_generator(token)
        IN  /\ auth.kind = "Err"
            /\ Serve("jwt_validator_generator", token.sub, [token |-> token],
                     HttpResponse(401, <<auth.e>>))
    /\ UNCHANGED <<tables, serial>>

create_currency ==
    /\ Accepting
    /\ \E token \in Tokens, data \in CreateCurrencyRequests :
        LET auth == jwt_validator_generator(token)
            user == auth.v
            creatable == NewCurrency_stateful_try_from(data, user)
            created ==
                insert_into(currencies,
                    Currency(serial.currencies, creatable.v.user_id,
                             creatable.v.name, creatable.v.rate_to_fixed,
                             or_default(creatable.v.archived)))
            inserted == creatable.kind = "Ok" /\ created.kind = "Ok"
        IN  /\ auth.kind = "Ok"
            /\ currencies' =
                   IF inserted THEN currencies \cup {created.v} ELSE currencies
            /\ serial' =
                   IF inserted THEN [serial EXCEPT !.currencies = @ + 1]
                   ELSE serial
            /\ Serve("create_currency", user.id, [data |-> data],
                     created_response(creatable, created, "currency"))
    /\ UNCHANGED <<sources, categories, entries>>

create_source ==
    /\ Accepting
    /\ \E token \in Tokens, data \in CreateSourceRequests :
        LET auth == jwt_validator_generator(token)
            user == auth.v
            creatable == NewSource_stateful_try_from(data, user)
            created ==
                insert_into(sources,
                    Source(serial.sources, creatable.v.user_id,
                           creatable.v.name, creatable.v.currency_id,
                           creatable.v.amount, or_default(creatable.v.archived)))
            inserted == creatable.kind = "Ok" /\ created.kind = "Ok"
        IN  /\ auth.kind = "Ok"
            /\ sources' = IF inserted THEN sources \cup {created.v} ELSE sources
            /\ serial' =
                   IF inserted THEN [serial EXCEPT !.sources = @ + 1] ELSE serial
            /\ Serve("create_source", user.id, [data |-> data],
                     created_response(creatable, created, "source"))
    /\ UNCHANGED <<currencies, categories, entries>>

create_category ==
    /\ Accepting
    /\ \E token \in Tokens, data \in CreateCategoryRequests :
        LET auth == jwt_validator_generator(token)
            user == auth.v
            creatable == NewCategory_stateful_try_from(data, user)
            created ==
                insert_into(categories,
                    Category(serial.categories, creatable.v.user_id,
                             creatable.v.name, or_default(creatable.v.archived)))
            inserted == creatable.kind = "Ok" /\ created.kind = "Ok"
        IN  /\ auth.kind = "Ok"
            /\ categories' =
                   IF inserted THEN categories \cup {created.v} ELSE categories
            /\ serial' =
                   IF inserted THEN [serial EXCEPT !.categories = @ + 1]
                   ELSE serial
            /\ Serve("create_category", user.id, [data |-> data],
                     created_response(creatable, created, "category"))
    /\ UNCHANGED <<currencies, sources, entries>>

\* entries has no unique index but its primary key: the insert goes through.
create_entry ==
    /\ Accepting
    /\ \E token \in Tokens, data \in CreateEntryRequests, now \in Clock :
        LET auth == jwt_validator_generator(token)
            user == auth.v
            creatable == NewEntry_stateful_try_from(data, user)
            c == creatable.v
            created ==
                ResultOk(Entry(serial.entries, c.user_id, c.description,
                               c.category_id, c.amount, c.date, now,
                               c.currency_id, c.entry_type, c.source_id,
                               c.secondary_source_id, c.conversion_rate,
                               c.conversion_rate_to_fixed,
                               or_default(c.archived)))
            inserted == creatable.kind = "Ok"
        IN  /\ auth.kind = "Ok"
            /\ entries' = IF inserted THEN entries \cup {created.v} ELSE entries
            /\ serial' =
                   IF inserted THEN [serial EXCEPT !.entries = @ + 1] ELSE serial
            /\ Serve("create_entry", user.id, [data |-> data],
                     created_response(creatable, created, "entry"))
    /\ UNCHANGED <<currencies, sources, categories>>

\* The rows of a Vec are kept as a set: the order of a query without
\* ORDER BY is not determined.
get_currencies ==
    /\ Accepting
    /\ \E token \in Tokens :
        LET auth == jwt_validator_generator(token)
            user == auth.v
            fetched == belonging_to(currencies, user)
        IN  /\ auth.kind = "Ok"
            /\ Serve("get_currencies", user.id, <<>>,
                     collected_response(
                         {CurrencyResponse_stateful_try_from(f) : f \in fetched}))
    /\ UNCHANGED <<tables, serial>>

get_sources ==
    /\ Accepting
    /\ \E token \in Tokens :
        LET auth == jwt_validator_generator(token)
            user == auth.v
            fetched == belonging_to(sources, user)
        IN  /\ auth.kind = "Ok"
            /\ Serve("get_sources", user.id, <<>>,
                     collected_response(
                         {SourceResponse_stateful_try_from(f) : f \in fetched}))
    /\ UNCHANGED <<tables, serial>>

get_categories ==
    /\ Accepting
    /\ \E token \in Tokens :
        LET auth == jwt_validator_generator(token)
            user == auth.v
            fetched == belonging_to(categories, user)
        IN  /\ auth.kind = "Ok"
            /\ Serve("get_categories", user.id, <<>>,
                     collected_response(
                         {CategoryResponse_stateful_try_from(f) : f \in fetched}))
    /\ UNCHANGED <<tables, serial>>

get_entries ==
    /\ Accepting
    /\ \E token \in Tokens :
        LET auth == jwt_validator_generator(token)
            user == auth.v
            fetched == belonging_to(entries, user)
        IN  /\ auth.kind = "Ok"
            /\ Serve("get_entries", user.id, <<>>,
                     collected_response(
                         {EntryResponse_stateful_try_from(f) : f \in fetched}))
    /\ UNCHANGED <<tables, serial>>

\* The routes that are bound to handlers::unimplemented.
unimplemented ==
    /\ Accepting
    /\ \E token \in Tokens :
        LET auth == jwt_validator_generator(token)
        IN  /\ auth.kind = "Ok"
            /\ Serve("unimplemented", auth.v.id, <<>>,
                     HttpResponse(501, <<"Unimplemented.">>))
    /\ UNCHANGED <<tables, serial>>

get_currency_by_name ==
    /\ Accepting
    /\ \E token \in Tokens, path_name \in CurrencyNames :
        LET auth == jwt_validator_generator(token)
            user == auth.v
            fetched ==
                first({r \in belonging_to(currencies, user) : r.name = path_name})
        IN  /\ auth.kind = "Ok"
            /\ Serve("get_currency_by_name", user.id, [name |-> path_name],
                     fetched_response(fetched,
                         CurrencyResponse_stateful_try_from(fetched.v),
                         "currency"))
    /\ UNCHANGED <<tables, serial>>

get_source_by_name ==
    /\ Accepting
    /\ \E token \in Tokens, path_name \in SourceNames :
        LET auth == jwt_validator_generator(token)
            user == auth.v
            fetched ==
                first({r \in belonging_to(sources, user) : r.name = path_name})
        IN  /\ auth.kind = "Ok"
            /\ Serve("get_source_by_name", user.id, [name |-> path_name],
                     fetched_response(fetched,
                         SourceResponse_stateful_try_from(fetched.v), "source"))
    /\ UNCHANGED <<tables, serial>>

get_category_by_name ==
    /\ Accepting
    /\ \E token \in Tokens, path_name \in CategoryNames :
        LET auth == jwt_validator_generator(token)
            user == auth.v
            fetched ==
                first({r \in belonging_to(categories, user) : r.name = path_name})
        IN  /\ auth.kind = "Ok"
            /\ Serve("get_category_by_name", user.id, [name |-> path_name],
                     fetched_response(fetched,
                         CategoryResponse_stateful_try_from(fetched.v),
                         "category"))
    /\ UNCHANGED <<tables, serial>>

delete_entries ==
    /\ Accepting
    /\ \E token \in Tokens, req \in BulkRequests :
        LET auth == jwt_validator_generator(token)
            user == auth.v
            target == {e \in belonging_to(entries, user) : e.id \in Range(req.ids)}
        IN  /\ auth.kind = "Ok"
            /\ entries' = entries \ target
            /\ Serve("delete_entries", user.id, req,
                     HttpResponse(200, [count |-> Cardinality(target)]))
    /\ UNCHANGED <<currencies, sources, categories, serial>>

archive_entries ==
    /\ Accepting
    /\ \E token \in Tokens, req \in BulkRequests :
        LET auth == jwt_validator_generator(token)
            user == auth.v
            target == {e \in belonging_to(entries, user) : e.id \in Range(req.ids)}
        IN  /\ auth.kind = "Ok"
            /\ entries' =
                   (entries \ target)
                       \cup {[e EXCEPT !.archived = TRUE] : e \in target}
            /\ Serve("archive_entries", user.id, req,
                     HttpResponse(200, [count |-> Cardinality(target)]))
    /\ UNCHANGED <<currencies, sources, categories, serial>>

update_currency ==
    /\ Accepting
    /\ \E token \in Tokens, path_name \in CurrencyNames,
          data \in UpdateCurrencyRequests :
        LET auth == jwt_validator_generator(token)
            user == auth.v
            change_set == UpdateCurrency_stateful_try_from(data, user)
            c == change_set.v
            target == {r \in belonging_to(currencies, user) : r.name = path_name}
            changed(r) ==
                [r EXCEPT !.name = set_column(@, c.name),
                          !.rate_to_fixed = set_column(@, c.rate_to_fixed),
                          !.archived = set_column(@, c.archived)]
            changes == [r \in target |-> changed(r)]
            updated ==
                execute_update(currencies, changes,
                    ~c.name.some /\ ~c.rate_to_fixed.some /\ ~c.archived.some)
        IN  /\ auth.kind = "Ok"
            /\ currencies' =
                   updated_table(currencies, changes, change_set, updated)
            /\ Serve("update_currency", user.id,
                     [name |-> path_name, data |-> data],
                     updated_response(change_set, updated, "currency"))
    /\ UNCHANGED <<sources, categories, entries, serial>>

update_source ==
    /\ Accepting
    /\ \E token \in Tokens, path_name \in SourceNames,
          data \in UpdateSourceRequests :
        LET auth == jwt_validator_generator(token)
            user == auth.v
            change_set == UpdateSource_stateful_try_from(data, user)
            c == change_set.v
            target == {r \in belonging_to(sources, user) : r.name = path_name}
            changed(r) ==
                [r EXCEPT !.name = set_column(@, c.name),
                          !.currency_id = set_column(@, c.currency_id),
                          !.amount = set_column(@, c.amount),
                          !.archived = set_column(@, c.archived)]
            changes == [r \in target |-> changed(r)]
            updated ==
                execute_update(sources, changes,
                    /\ ~c.name.some /\ ~c.currency_id.some
                    /\ ~c.amount.some /\ ~c.archived.some)
        IN  /\ auth.kind = "Ok"
            /\ sources' =
                   updated_table(sources, changes, change_set, updated)
            /\ Serve("update_source", user.id,
                     [name |-> path_name, data |-> data],
                     updated_response(change_set, updated, "source"))
    /\ UNCHANGED <<currencies, categories, entries, serial>>

update_category ==
    /\ Accepting
    /\ \E token \in Tokens, path_name \in CategoryNames,
          data \in UpdateCategoryRequests :
        LET auth == jwt_validator_generator(token)
            user == auth.v
            change_set == UpdateCategory_stateful_try_from(data, user)
            c == change_set.v
            target == {r \in belonging_to(categories, user) : r.name = path_name}
            changed(r) ==
                [r EXCEPT !.name = set_column(@, c.name),
                          !.archived = set_column(@, c.archived)]
            changes == [r \in target |-> changed(r)]
            updated ==
                execute_update(categories, changes,
                    ~c.name.some /\ ~c.archived.some)
        IN  /\ auth.kind = "Ok"
            /\ categories' =
                   updated_table(categories, changes, change_set, updated)
            /\ Serve("update_category", user.id,
                     [name |-> path_name, data |-> data],
                     updated_response(change_set, updated, "category"))
    /\ UNCHANGED <<currencies, sources, entries, serial>>

archive_currency ==
    /\ Accepting
    /\ \E token \in Tokens, path_name \in CurrencyNames :
        LET auth == jwt_validator_generator(token)
            user == auth.v
            fetched ==
                first({r \in belonging_to(currencies, user) : r.name = path_name})
            net_amount == Currency_get_net_amount(fetched.v)
        IN  /\ auth.kind = "Ok"
            /\ currencies' = archived_table(currencies, fetched, net_amount)
            /\ Serve("archive_currency", user.id, [name |-> path_name],
                     archive_response(fetched, net_amount, "currency",
                         "You cannot archive that currency while you still have balance within it."))
    /\ UNCHANGED <<sources, categories, entries, serial>>

archive_source ==
    /\ Accepting
    /\ \E token \in Tokens, path_name \in SourceNames :
        LET auth == jwt_validator_generator(token)
            user == auth.v
            fetched ==
                first({r \in belonging_to(sources, user) : r.name = path_name})
            net_amount == Source_get_net_amount(fetched.v)
        IN  /\ auth.kind = "Ok"
            /\ sources' = archived_table(sources, fetched, net_amount)
            /\ Serve("archive_source", user.id, [name |-> path_name],
                     archive_response(fetched, net_amount, "source",
                         "You cannot archive that source while it still has balance. You can transfer all balance to another source of the same currency or do a currency conversion to a different source of a different currency. "))
    /\ UNCHANGED <<currencies, categories, entries, serial>>

archive_category ==
    /\ Accepting
    /\ \E token \in Tokens, path_name \in CategoryNames :
        LET auth == jwt_validator_generator(token)
            user == auth.v
            fetched ==
                first({r \in belonging_to(categories, user) : r.name = path_name})
            net_amount == Category_get_net_amount(fetched.v)
        IN  /\ auth.kind = "Ok"
            /\ categories' = archived_table(categories, fetched, net_amount)
            /\ Serve("archive_category", user.id, [name |-> path_name],
                     archive_response(fetched, net_amount, "category",
                         "You cannot archive that category while it has entries. You can transfer all entries to another category and then proceed."))
    /\ UNCHANGED <<currencies, sources, entries, serial>>

\* The sums find_entries adds to the entries it found.
statistics(found) ==
    LET months == {format_Ym(e.date) : e \in found}
        keys == {<<e.category_id, format_Ym(e.date)>> : e \in found}
    IN  [sum_per_month |->
             [m \in months |->
                 SumAmounts({e \in found : format_Ym(e.date) = m})],
         avg_per_month |->
             [sum |-> SumAmounts(found), num_months |-> Cardinality(months)],
         sum_per_category_per_month |->
             [k \in keys |->
                 SumAmounts({e \in found :
                               <<e.category_id, format_Ym(e.date)>> = k})],
         entries |-> found]

find_entries ==
    /\ Accepting
    /\ \E token \in Tokens, query_params \in EntryQueries :
        LET auth == jwt_validator_generator(token)
            user == auth.v
        IN  /\ auth.kind = "Ok"
            /\ \E found \in find_by_filter(query_params, user) :
                   Serve("find_entries", user.id, query_params,
                         IF found.kind = "Err"
                         THEN internal(<<"E007: Error finding entries">>)
                         ELSE HttpResponse(200, statistics(found.v)))
    /\ UNCHANGED <<tables, serial>>

ServerInit ==
    /\ ast = Widget
    /\ Entered
    /\ \E d \in {FreshDatabase, LedgerDatabase} : Started(d)

\* The server on a database with more entries than the documented limit.
BulkInit ==
    /\ ast = Widget
    /\ Entered
    /\ Started(BulkDatabase)

ServerNext ==
    \/ Unauthorized
    \/ create_currency
    \/ create_source
    \/ create_category
    \/ create_entry
    \/ get_currencies
    \/ get_sources
    \/ get_categories
    \/ get_entries
    \/ unimplemented
    \/ get_currency_by_name
    \/ get_source_by_name
    \/ get_category_by_name
    \/ delete_entries
    \/ archive_entries
    \/ update_currency
    \/ update_source
    \/ update_category
    \/ archive_currency
    \/ archive_source
    \/ archive_category
    \/ find_entries

ServerSpec == ServerInit /\ [][ServerNext]_vars

BulkSpec == BulkInit /\ [][ServerNext]_vars

(***************************************************************************)
(* The claims about the handlers, checked under ServerSpec.                 *)
(***************************************************************************)
\* The rows of a table that the request just served names: the rows of its
\* user with the name of its path.
NamedRows(table) ==
    {r \in table : r.user_id = request'.user /\ r.name = request'.params.name}

\* One archive step from table to table_after, where net[r] is the net
\* amount of the row r.
ArchiveStep(table, table_after, net) ==
    /\ response'.status = 200 =>
           \E r \in NamedRows(table) :
               /\ abs(net[r]) <= EPSILON
               /\ table_after = (table \ {r}) \cup {[r EXCEPT !.archived = TRUE]}
    /\ (\E r \in NamedRows(table) : abs(net[r]) > EPSILON) =>
           /\ response'.status = 400
           /\ table_after = table
    /\ response'.status # 200 => table_after = table

\* One get by name step: the answer reports the archived flag that is stored.
ReportStep(table) ==
    response'.status = 200 =>
        \E r \in NamedRows(table) : response'.body.archived = r.archived

\* C25: archiving a currency, source or category by name sets archived =
\* true on that entity of the requesting user only when its net amount is
\* zero within EPSILON; with a net amount that is not zero the request is
\* answered 400 Bad Request and the entity stays as it is; a get by name
\* reports the archived flag that is stored, so true after an archive.
C25_ArchiveOnlyWhenSettled ==
    [][/\ request'.handler = "archive_currency" =>
              /\ ArchiveStep(currencies, currencies',
                     [c \in currencies |->
                         SumAmounts({s \in sources :
                                       s.currency_id = c.id /\ ~s.archived})])
              /\ UNCHANGED <<sources, categories, entries>>
       /\ request'.handler = "archive_source" =>
              /\ ArchiveStep(sources, sources', [s \in sources |-> s.amount])
              /\ UNCHANGED <<currencies, categories, entries>>
       /\ request'.handler = "archive_category" =>
              /\ ArchiveStep(categories, categories',
                     [c \in categories |->
                         SumAmounts({e \in entries :
                                       e.category_id = c.id /\ ~e.archived})])
              /\ UNCHANGED <<currencies, sources, entries>>
       /\ request'.handler = "get_currency_by_name" => ReportStep(currencies)
       /\ request'.handler = "get_source_by_name" => ReportStep(sources)
       /\ request'.handler = "get_category_by_name" => ReportStep(categories)
      ]_vars

\* A get by name that reports archived = true for a source without balance,
\* which only an archive can have brought about in LedgerDatabase.
C25_Witness ==
    /\ request.handler = "get_source_by_name"
    /\ request.user = 1
    /\ request.params.name = "Wallet"
    /\ response.status = 200
    /\ response.body.archived
    /\ \E s \in sources : s.id = 1 /\ s.amount = 0 /\ s.archived

\* The entries of the user of the request just served that its list names.
ListedEntries ==
    {e \in entries : e.user_id = request'.user
                       /\ e.id \in Range(request'.params.ids)}

\* C26: delete_entries removes exactly the entries of the requesting user
\* whose id is in the list; archive_entries sets archived = true on exactly
\* those and removes none; every other entry and every other table stays as
\* it is, and get_entries returns the entries of the user with the archived
\* flags that are stored.
C26_BulkEntries ==
    [][/\ request'.handler = "delete_entries" =>
              /\ entries' = entries \ ListedEntries
              /\ response'.body.count = Cardinality(ListedEntries)
              /\ UNCHANGED <<currencies, sources, categories>>
       /\ request'.handler = "archive_entries" =>
              /\ entries' = {IF e \in ListedEntries
                             THEN [e EXCEPT !.archived = TRUE] ELSE e :
                               e \in entries}
              /\ {e.id : e \in entries'} = {e.id : e \in entries}
              /\ response'.body.count = Cardinality(ListedEntries)
              /\ UNCHANGED <<currencies, sources, categories>>
       /\ request'.handler = "get_entries" /\ response'.status = 200 =>
              {<<r.id, r.archived>> : r \in response'.body}
                  = {<<e.id, e.archived>> :
                       e \in {x \in entries : x.user_id = request'.user}}
      ]_vars

\* A bulk delete that removed one entry and left an entry of its list that
\* belongs to another user.
C26_Witness ==
    /\ request.handler = "delete_entries"
    /\ response.body.count = 1
    /\ \E e \in entries : /\ e.id \in Range(request.params.ids)
                          /\ e.user_id # request.user

\* a is not later than b.
DateTimeLe(a, b) == ~DateTimeLt(b, a)

\* The entry e passes the amount and date filters of the query q with the
\* comparisons the documentation of EntryQuery lists.
Documented(q, e) ==
    /\ q.amount.some => e.amount = q.amount.v
    /\ q.min_amount.some => e.amount >= q.min_amount.v
    /\ q.max_amount.some => e.amount <= q.max_amount.v
    /\ q.date.some => e.date = and_midnight(NaiveDate_parse_from_str(q.date.v).v)
    /\ q.after.some =>
           DateTimeLe(and_midnight(NaiveDate_parse_from_str(q.after.v).v), e.date)
    /\ q.before.some =>
           DateTimeLe(e.date, and_midnight(NaiveDate_parse_from_str(q.before.v).v))
    /\ q.created_after.some =>
           DateTimeLe(NaiveDateTime_parse_from_str(q.created_after.v).v,
                      e.created_at)
    /\ q.created_before.some =>
           DateTimeLe(e.created_at,
                      NaiveDateTime_parse_from_str(q.created_before.v).v)

\* The query has none of the filters by id, name, text or type, and no limit.
OnlyAmountsAndDates(q) ==
    /\ ~q.ids.some /\ ~q.sources.some /\ ~q.currencies.some
    /\ ~q.categories.some /\ ~q.description.some /\ ~q.entry_types.some
    /\ ~q.limit.some

\* C27: find_by_filter returns exactly the entries that pass every supplied
\* filter with the documented comparison: amount equal, min_amount greater
\* or equal, max_amount less or equal, date equal, after and created_after
\* greater or equal, before and created_before less or equal.
C27_DocumentedComparisons ==
    (/\ request.handler = "find_entries"
     /\ response.status = 200
     /\ OnlyAmountsAndDates(request.params))
        => response.body.entries
               = {e \in entries : Documented(request.params, e)}

\* C28: without a limit find_by_filter returns at most DefaultLimit
\* entries, with a limit L at most L entries.
C28_LimitApplied ==
    (request.handler = "find_entries" /\ response.status = 200)
        => Cardinality(response.body.entries)
               <= IF request.params.limit.some THEN request.params.limit.v
                  ELSE DefaultLimit

\* One create step into table: a name the user already has is turned down
\* and the table stays as it is.
DuplicateStep(table, table_after) ==
    (\E r \in table : /\ r.user_id = request'.user
                      /\ r.name = request'.params.data.name)
        => /\ response'.status = 400
           /\ table_after = table

C30_UserIsolation ==
    [][/\ \A e \in (entries \ entries') \cup (entries' \ entries) :
              e.user_id = request'.user
       /\ \A r \in (currencies \ currencies') \cup (currencies' \ currencies) :
              r.user_id = request'.user
       /\ \A r \in (sources \ sources') \cup (sources' \ sources) :
              r.user_id = request'.user
       /\ \A r \in (categories \ categories') \cup (categories' \ categories) :
              r.user_id = request'.user
       /\ request'.handler = "find_entries" /\ response'.status = 200 =>
              \A e \in response'.body.entries : e.user_id = request'.user
      ]_vars
====
